---- MODULE Spec2Model ----
(***************************************************************************)
(* Keithley 2182 / Kelvinion resistance-measurement system.                *)
(*                                                                         *)
(* Temperatures are fixed-point integers in millikelvin (300 K = 300000).  *)
(* The module holds several specifications over one set of variables:      *)
(*   SpecGen    MeasurementWorker._generate_temps_for_block (pure)         *)
(*   SpecWait   KelvinionController.wait_for_stable called on its own      *)
(*   SpecRun    MeasurementWorker.run with a concurrent stop()             *)
(*   SpecLock   threads sharing the KelvinionController transport          *)
(*   SpecMatrix threads calling MeasurementSystem.measure_single_channel   *)
(*   SpecFault  SpecRun with transport calls that may raise               *)
(*   SpecRunLive single-block runs under a fairly scheduled worker thread  *)
(*   SpecApp    AppController's Run/Stop, lock and channel dialog handlers *)
(*   SpecManual the manual setpoint against the workers' setpoint calls    *)
(*   SpecCtl    KelvinionController methods with a reloadable PID/ramp     *)
(*              table, lookup by lookup and command by command             *)
(*   SpecCsv    AppController._write_data_to_file and get_csv_header       *)
(*   SpecRead   KelvinionController.read_temperatures and its parsing      *)
(* A specification leaves the variables of the others at their idle value. *)
(***************************************************************************)
EXTENDS Integers, Sequences, FiniteSets, TLC

VARIABLES
    \* ---- _generate_temps_for_block applied to one block
    block,              \* the block handed to the function
    temp_points,        \* the list it returned
    gen_done,           \* whether it has been applied
    \* ---- MeasurementWorker.run / KelvinionController.wait_for_stable
    sequence,           \* MeasurementWorker.sequence
    has_kelvinion,      \* msys.kelvinion is not None
    has_k6221,          \* msys.k6221 is not None
    has_matrix,         \* msys.matrix is not None
    channels,           \* msys.channels: channel name -> enabled
    is_running,         \* MeasurementWorker._is_running
    pc,                 \* position of the worker in run / wait_for_stable
    i,                  \* index of the current block (1-based)
    temp_points_in_block,
    k,                  \* index of the current point in temp_points_in_block
    enabled_channels,   \* the list built at line 116
    c,                  \* index in enabled_channels
    resistances,        \* the dict of the current point, in insertion order
    target,             \* wait_for_stable's target
    tol,                \* wait_for_stable's tol
    valid_count,        \* wait_for_stable's valid_count
    elapsed,            \* interruptible_sleep's elapsed, in ticks of interval
    events,             \* signals emitted and hardware operations, in order
    standalone,         \* wait_for_stable was called directly, not from run
    wfs_exit,           \* which exit wait_for_stable took ("" while inside)
    reads,              \* in-tolerance flags of the readings of this wait
    late_reads,         \* read_temperatures calls issued after stop()
    late_measures,      \* measure_single_channel calls started after stop()
    stopped_at,         \* events emitted when stop() was called, -1 before
    temp,               \* run's local `temp` (line 126)
    mcall,              \* what the latest call of the channel loop did
    \* ---- threads on the KelvinionController transport
    lock,               \* holder of KelvinionController._lock, or NoThread
    prog,               \* per thread: the instructions left of its operation
    in_call,            \* per thread: the transport command it is inside of
    ops_left,           \* operations the threads may still start
    pidramp,            \* KelvinionController.pidramp: the table object
    call,               \* per thread: the method it called last
    trace,              \* per thread: what that call has done, in order
    loads_left,         \* load_pidramp calls that may still be made
    \* ---- threads on the switch matrix
    closed,             \* relay paths closed in the 3706
    mx_pc,              \* per thread: position in measure_single_channel
    mx_ch,              \* per thread: the channel it measures
    mx_pin,             \* per thread: next pin of connect's loop
    mx_left,            \* measurement calls that may still be started
    \* ---- AppController and the workers it has started
    app_is_running,     \* AppController.is_running
    is_manual_locked,   \* AppController.is_manual_locked
    measurement_worker, \* AppController.measurement_worker (0 for None)
    workers,            \* per started worker: its _is_running and its stage
    finished_queue,     \* finished signals queued for the GUI thread
    dialog,             \* the ChannelConfigDialog: closed, or open (un)locked
    starts_left,        \* runs that may still be started
    \* ---- _write_data_to_file / get_csv_header applied to one sample
    csv_channels,       \* msys.channels: (name, enabled) in the dict's order
    sample,             \* the resistances dict handed to handle_new_data
    row_data,           \* the resistance fields of the row written
    header,             \* the resistance columns of get_csv_header
    \* ---- read_temperatures applied to one pair of responses
    raw_f,              \* the response to [READ:K:F]
    raw_d,              \* the response to [READ:K:D]
    rt_f,               \* read_temperatures' t_f
    rt_d,               \* read_temperatures' t_d
    rt_pc               \* position in read_temperatures

genVars == <<block, temp_points, gen_done>>
runVars == <<sequence, has_kelvinion, has_k6221, has_matrix, channels,
             is_running, pc, i,
             temp_points_in_block, k, enabled_channels, c, resistances,
             target, tol, valid_count, elapsed, events, standalone,
             stopped_at,
             wfs_exit, reads, late_reads, late_measures, temp, mcall>>
tableVars == <<pidramp, call, trace, loads_left>>
lockVars == <<lock, prog, in_call, ops_left, tableVars>>
mxVars == <<closed, mx_pc, mx_ch, mx_pin, mx_left>>
appVars == <<app_is_running, is_manual_locked, measurement_worker, workers,
             finished_queue, dialog, starts_left>>
csvVars == <<csv_channels, sample, row_data, header>>
readVars == <<raw_f, raw_d, rt_f, rt_d, rt_pc>>
fnVars == <<genVars, csvVars, readVars>>
vars == <<fnVars, runVars, lockVars, mxVars, appVars>>

----------------------------------------------------------------------------
(* Values *)

Abs(x) == IF x < 0 THEN -x ELSE x

\* A field of a block as the GUI hands it over: text that float() accepts,
\* or text it rejects / a missing key.
Num(v) == [num |-> TRUE, v |-> v]
Bad == [num |-> FALSE, v |-> 0]

\* float('nan'): every comparison with it is false.
NaN == [num |-> FALSE, v |-> 0]

\* a block with a missing or non-numeric start, stop or step
HasBadField(b) == ~b.start.num \/ ~b.stop.num \/ ~b.step.num

Last(s) == s[Len(s)]

RECURSIVE Concat(_)
Concat(ss) == IF ss = <<>> THEN <<>> ELSE Head(ss) \o Concat(Tail(ss))

----------------------------------------------------------------------------
(* MeasurementWorker._generate_temps_for_block *)

\* numpy.arange(start, stop, step): ceil((stop - start) / step) points
\* start + n*step, none when that length is not positive.
ArangeLen(start, stop, step) ==
    LET span == stop - start
    IN IF step = 0 \/ span = 0 \/ (span > 0) # (step > 0) THEN 0
       ELSE (Abs(span) + Abs(step) - 1) \div Abs(step)

Arange(start, stop, step) ==
    [n \in 1..ArangeLen(start, stop, step) |-> start + (n - 1) * step]

\* numpy.isclose(a, b) with its defaults: |a - b| <= atol + rtol * |b|,
\* atol = 1e-8 K, rtol = 1e-5.  On millikelvin integers atol is below one
\* unit, so the test is |a - b| * 100000 <= |b| (and a = b passes).
IsClose(a, b) == Abs(a - b) * 100000 <= Abs(b)

\* mutant: the step field is not converted inside the try block
FieldsNumeric_noStep(b) == b.start.num /\ b.stop.num

\* the try block: float() of the three fields
FieldsNumeric(b) == b.start.num /\ b.stop.num /\ b.step.num

\* mutant: the step keeps the sign the user gave it
Direction_asGiven(start_temp, stop_temp, step_val) == step_val

\* lines 56-59: the sign of the user's step is replaced by the direction
Direction(start_temp, stop_temp, step_val) ==
    IF start_temp > stop_temp THEN -Abs(step_val) ELSE Abs(step_val)

\* lines 64-67: whether stop is appended after the arange points
AppendsStop(points, start_temp, stop_temp, step) ==
    /\ (Len(points) = 0 \/ ~IsClose(Last(points), stop_temp))
    /\ \/ (step > 0 /\ stop_temp >= start_temp)
       \/ (step < 0 /\ stop_temp <= start_temp)

\* mutant: a zero step still runs from start to stop
ZeroStepPoints_range(start_temp, stop_temp) ==
    IF stop_temp = start_temp THEN <<start_temp>>
    ELSE <<start_temp, stop_temp>>

\* lines 53-54: the step == 0 branch
ZeroStepPoints(start_temp, stop_temp) == <<start_temp>>

GenerateTemps(b) ==
    IF ~FieldsNumeric(b) THEN <<>>
    ELSE LET start_temp == b.start.v
             stop_temp == b.stop.v
             step_val == b.step.v
         IN IF step_val = 0 THEN ZeroStepPoints(start_temp, stop_temp)
            ELSE LET step == Direction(start_temp, stop_temp, step_val)
                     points == Arange(start_temp, stop_temp, step)
                 IN IF AppendsStop(points, start_temp, stop_temp, step)
                    THEN Append(points, stop_temp)
                    ELSE points

----------------------------------------------------------------------------
(* The PID/ramp configuration handed to KelvinionController (PIDRAMP.json): *)
(* range-keyed tables, scanned in declaration order.  The entries overlap   *)
(* and leave gaps so that first-match and the defaults both occur.          *)

Pidramp ==
    [sample_ramp      |-> << [min |-> 0, max |-> 100000, ramp |-> 2],
                             [min |-> 50000, max |-> 310000, ramp |-> 4] >>,
     chamber_ramp     |-> << [min |-> 0, max |-> 310000, ramp |-> 3] >>,
     sample_pid       |-> << [min |-> 0, max |-> 310000, P |-> 20, I |-> 5] >>,
     chamber_pid      |-> << [min |-> 100000, max |-> 310000, P |-> 30, I |-> 7] >>,
     sample_range     |-> << [min |-> 0, max |-> 100000, range |-> "MID"],
                             [min |-> 100000, max |-> 310000, range |-> "HIGH"] >>,
     chamber_range    |-> << [min |-> 100000, max |-> 310000, range |-> "HIGH"] >>,
     tolerance_ranges |-> << [min |-> 0, max |-> 100000, tolerance |-> 50],
                             [min |-> 50000, max |-> 299000, tolerance |-> 200] >>]

\* mutant: the last entry containing target
FirstMatch_last(table, t) ==
    LET found == {n \in 1..Len(table) :
                    table[n].min <= t /\ t <= table[n].max}
    IN IF found = {} THEN 0
       ELSE CHOOSE n \in found : \A m \in found : m <= n

\* the scan `for entry in table: if entry["min"] <= target <= entry["max"]`:
\* the index of the first entry containing target, 0 when there is none
RECURSIVE FirstMatchFrom(_, _, _)
FirstMatchFrom(table, t, n) ==
    IF n > Len(table) THEN 0
    ELSE IF table[n].min <= t /\ t <= table[n].max THEN n
    ELSE FirstMatchFrom(table, t, n + 1)

FirstMatch(table, t) == FirstMatchFrom(table, t, 1)

\* the fallback of _tolerance: 0.1 K
DefaultTolerance == 100

\* KelvinionController._tolerance
Tolerance(t) ==
    LET n == FirstMatch(Pidramp.tolerance_ranges, t)
    IN IF n = 0 THEN DefaultTolerance ELSE Pidramp.tolerance_ranges[n].tolerance

----------------------------------------------------------------------------
(* Bounds of the model *)

\* readings recorded for one directly called wait_for_stable
MaxReads == 12

\* blocks in a sequence
MaxBlocks == 2

\* KelvinionController operations started in one behaviour
MaxOps == 3

\* measure_single_channel calls started in one behaviour
MaxMeasures == 3

\* start and stop of a generated block lie at most this far above their base
MaxOffset == 4

\* magnitude of the step of a generated block
MaxStep == 3

\* the counters of late reads and late measurements stop counting here
MaxLate == 3

\* how many runs the user starts
MaxStarts == 3

----------------------------------------------------------------------------
(* KelvinionController.wait_for_stable and interruptible_sleep *)

\* `while valid_count < 6`
StableCount == 6

\* interruptible_sleep(1, checker, interval=0.2) tests the checker once per
\* interval: elapsed reaches 1.0 after five additions of 0.2
SleepTicks == 5

\* `t - target < tol and target - t < tol`; false for NaN
InTolerance(t, tgt, tl) == t.num /\ t.v - tgt < tl /\ tgt - t.v < tl

\* mutant: the counter is reset after every reading
NextValidCount_never(vc, ok) == 0

\* mutant: an out-of-tolerance reading pauses the counter
NextValidCount_pause(vc, ok) == IF ok THEN vc + 1 ELSE vc

\* lines 262-265: the consecutive counter after one confirmation reading
NextValidCount(vc, ok) == IF ok THEN vc + 1 ELSE 0

\* What read_temperatures can return for the sample channel: values inside
\* the band, on its edges, and NaN for an unparsable response.
Readings(tgt, tl) ==
    {Num(tgt), Num(tgt + tl - 1), Num(tgt + tl), Num(tgt - tl), NaN}

Ev(e, blk, v) == [e |-> e, blk |-> blk, v |-> v]

\* mutant: the checker always answers "still running"
IsRunningChecker_always(running) == TRUE

\* controller.py line 109: is_running_checker=lambda: self._is_running
IsRunningChecker(running) == running

instrVars == <<has_kelvinion, has_k6221, has_matrix>>
cfgVars == <<sequence, instrVars, channels, standalone, stopped_at>>
loopVars == <<i, temp_points_in_block, k, enabled_channels, c, resistances,
              temp>>
waitVars == <<target, tol, valid_count, elapsed>>
otherVars == <<fnVars, lockVars, mxVars, appVars>>

\* `return` of wait_for_stable: back into run at line 111, or to the direct
\* caller.  The method returns None on every exit; wfs_exit records which.
WfsReturn(exit) ==
    /\ wfs_exit' = exit
    /\ pc' = IF standalone THEN "wfs_returned" ELSE "post_wait_check"

\* a read_temperatures call of wait_for_stable, seen by the observers
WfsObserveRead(ok) ==
    /\ reads' = IF standalone THEN Append(reads, ok) ELSE reads
    /\ late_reads' = IF is_running \/ late_reads >= MaxLate THEN late_reads
                     ELSE late_reads + 1
    /\ UNCHANGED <<late_measures, mcall>>

\* lines 240-243: top of the acquisition loop
WfsAcqCheck ==
    /\ pc = "wfs_acq_check"
    /\ IF ~IsRunningChecker(is_running)
       THEN WfsReturn("aborted")
       ELSE pc' = "wfs_acq_settle" /\ UNCHANGED wfs_exit
    /\ UNCHANGED <<cfgVars, loopVars, waitVars, is_running, events, reads,
                   late_reads, late_measures, mcall, otherVars>>

\* line 244: interruptible_sleep(0.8) is given no checker and sleeps through
WfsAcqSettle ==
    /\ pc = "wfs_acq_settle"
    /\ pc' = "wfs_acq_read"
    /\ UNCHANGED <<cfgVars, loopVars, waitVars, is_running, events, reads,
                   late_reads, late_measures, mcall, wfs_exit, otherVars>>

\* lines 246-249
WfsAcqRead ==
    /\ pc = "wfs_acq_read"
    /\ Len(reads) < MaxReads
    /\ \E t \in Readings(target, tol) :
         LET ok == InTolerance(t, target, tol)
         IN /\ WfsObserveRead(ok)
            /\ IF ok
               THEN /\ pc' = "wfs_conf_check"
                    /\ valid_count' = 0
                    /\ UNCHANGED elapsed
               ELSE /\ pc' = "wfs_acq_sleep"
                    /\ elapsed' = 0
                    /\ UNCHANGED valid_count
    /\ UNCHANGED <<cfgVars, loopVars, target, tol, is_running, events,
                   wfs_exit, otherVars>>

\* line 250 with interruptible_sleep's loop, lines 15-20: one pass per tick
WfsAcqSleep ==
    /\ pc = "wfs_acq_sleep"
    /\ IF elapsed >= SleepTicks
       THEN pc' = "wfs_acq_check" /\ UNCHANGED <<elapsed, wfs_exit>>
       ELSE IF ~IsRunningChecker(is_running)
       THEN WfsReturn("aborted") /\ UNCHANGED elapsed
       ELSE elapsed' = elapsed + 1 /\ UNCHANGED <<pc, wfs_exit>>
    /\ UNCHANGED <<cfgVars, loopVars, target, tol, valid_count, is_running,
                   events, reads, late_reads, late_measures, mcall, otherVars>>

\* lines 255-258 and, once the loop condition fails, line 269
WfsConfCheck ==
    /\ pc = "wfs_conf_check"
    /\ IF ~(valid_count < StableCount)
       THEN WfsReturn("stabilized")
       ELSE IF ~IsRunningChecker(is_running)
       THEN WfsReturn("aborted")
       ELSE pc' = "wfs_conf_settle" /\ UNCHANGED wfs_exit
    /\ UNCHANGED <<cfgVars, loopVars, waitVars, is_running, events, reads,
                   late_reads, late_measures, mcall, otherVars>>

\* line 259
WfsConfSettle ==
    /\ pc = "wfs_conf_settle"
    /\ pc' = "wfs_conf_read"
    /\ UNCHANGED <<cfgVars, loopVars, waitVars, is_running, events, reads,
                   late_reads, late_measures, mcall, wfs_exit, otherVars>>

\* lines 260-265
WfsConfRead ==
    /\ pc = "wfs_conf_read"
    /\ Len(reads) < MaxReads
    /\ \E t \in Readings(target, tol) :
         LET ok == InTolerance(t, target, tol)
         IN /\ WfsObserveRead(ok)
            /\ valid_count' = NextValidCount(valid_count, ok)
    /\ pc' = "wfs_conf_sleep"
    /\ elapsed' = 0
    /\ UNCHANGED <<cfgVars, loopVars, target, tol, is_running, events,
                   wfs_exit, otherVars>>

\* line 266 with interruptible_sleep's loop
WfsConfSleep ==
    /\ pc = "wfs_conf_sleep"
    /\ IF elapsed >= SleepTicks
       THEN pc' = "wfs_conf_check" /\ UNCHANGED <<elapsed, wfs_exit>>
       ELSE IF ~IsRunningChecker(is_running)
       THEN WfsReturn("aborted") /\ UNCHANGED elapsed
       ELSE elapsed' = elapsed + 1 /\ UNCHANGED <<pc, wfs_exit>>
    /\ UNCHANGED <<cfgVars, loopVars, target, tol, valid_count, is_running,
                   events, reads, late_reads, late_measures, mcall, otherVars>>

\* mutant: stop() leaves the flag as it is
StopRequested_noEffect(running) == running

\* controller.py line 41: the flag after stop()
StopRequested(running) == FALSE

\* MeasurementWorker.stop, called from the GUI thread at any moment
Stop ==
    /\ is_running
    /\ pc \notin {"done", "wfs_returned", "raised"}
    /\ is_running' = StopRequested(is_running)
    /\ stopped_at' = IF stopped_at < 0 THEN Len(events) ELSE stopped_at
    /\ UNCHANGED <<sequence, instrVars, channels, standalone, loopVars,
                   waitVars, pc, events, wfs_exit, reads,
                   late_reads, late_measures, mcall, otherVars>>

----------------------------------------------------------------------------
(* MeasurementWorker.run *)

\* msys.channels in declaration order
ChannelNames == <<"CH1", "CH2">>

\* mutant: the chamber gets the sample's setpoint
ChamberTarget_same(temp_point) == temp_point

\* line 107: the chamber setpoint, temp_point*0.968
ChamberTarget(temp_point) == (temp_point * 968) \div 1000

\* mutant: the enabled channels, last declared first
EnabledChannels_reversed(chs) ==
    LET en == SelectSeq(ChannelNames, LAMBDA n : chs[n])
    IN [n \in 1..Len(en) |-> en[Len(en) + 1 - n]]

\* mutant: every channel is measured, enabled or not
EnabledChannels_all(chs) == ChannelNames

\* line 116: the enabled channels, in the order of msys.channels
EnabledChannels(chs) == SelectSeq(ChannelNames, LAMBDA n : chs[n])

\* mutant: the channel loop does not look at the flag
ChannelLoopContinues_unchecked(cc, n, running) == cc <= n

\* lines 117-118: the channel loop goes on while channels are left and the
\* flag is set
ChannelLoopContinues(cc, n, running) == cc <= n /\ running

\* mutant: a failure leaves the handles opened before it
ExceptReset_keep(msys) == msys

\* measure_core.py line 411, the except block of initialize_instruments:
\* self.rm = self.kelvinion = self.k6221 = self.matrix = None
ExceptReset(msys) == [kelvinion |-> FALSE, k6221 |-> FALSE, matrix |-> FALSE]

\* measure_core.py lines 398-411.  opened[n]: the n-th open_resource call
\* (kelvinion, k6221, matrix) succeeds; the first failure leaves the try
\* block, the handles before it assigned and the later ones still None
\* (lines 380-382)
InitializeInstruments(opened) ==
    LET tried == [kelvinion |-> opened[1],
                  k6221 |-> opened[1] /\ opened[2],
                  matrix |-> opened[1] /\ opened[2] /\ opened[3]]
    IN IF tried.matrix THEN tried ELSE ExceptReset(tried)

\* outside the channel loop: no measure_single_channel call to look at
NoCall == [outcome |-> "none", cmds |-> <<>>, error |-> FALSE, nan |-> FALSE]

\* how one measure_single_channel call can go.  Without a matrix
\* self.matrix.connect raises AttributeError, so nothing past it is reached.
MeasureOutcomes(k6221, matrix) ==
    {"bad_current", "no_pins", "connect_raises"}
    \cup (IF k6221 /\ matrix THEN {"delta_raises", "ok"} ELSE {})

\* mutant: the except block does not send the abort
AbortOnError_never(k6221) == <<>>

\* measure_core.py lines 548-553: the abort sent to the 6221, if there is one
AbortOnError(k6221) == IF k6221 THEN <<"SOURCE:SWEEP:ABORT">> ELSE <<>>

\* measure_core.py lines 556-562: the finally block
FinallyOpenAll(matrix) == IF matrix THEN <<"open_all">> ELSE <<>>

\* measure_core.py lines 513-562, as its caller sees one call: the
\* instrument commands issued, whether error_occurred was emitted, and
\* whether NaN was returned
MeasureSingleChannel(k6221, matrix, outcome) ==
    LET connect == IF matrix THEN <<"connect">> ELSE <<>>
        tried == CASE outcome = "bad_current" -> <<>>
                   [] outcome = "no_pins" -> <<>>
                   [] outcome = "connect_raises" -> connect
                   [] outcome = "delta_raises" -> connect \o <<"delta_measure">>
                   [] outcome = "ok" -> connect \o <<"delta_measure">>
        raised == outcome \in {"bad_current", "connect_raises", "delta_raises"}
    IN [outcome |-> outcome,
        cmds |-> tried \o (IF raised THEN AbortOnError(k6221) ELSE <<>>)
                       \o FinallyOpenAll(matrix),
        error |-> raised,
        nan |-> outcome # "ok"]

\* mutant: the reading is handed on without looking at msys.kelvinion
GetTemperatures_raw(kelvinion, raises, t_f, t_d) == <<t_f, t_d>>

\* measure_core.py lines 478-489: (NaN, NaN) without a controller or when
\* read_temperatures raises
GetTemperatures(kelvinion, raises, t_f, t_d) ==
    IF kelvinion /\ ~raises THEN <<t_f, t_d>> ELSE <<NaN, NaN>>

\* measure_core.py lines 467-471
GetSampleTemperature(kelvinion, raises, t_f, t_d) ==
    GetTemperatures(kelvinion, raises, t_f, t_d)[1]

\* mutant: the END checkbox is not looked at
EndFlag_never(b) == FALSE

\* block.get('end', False)
EndFlag(b) == b.end

\* lines 80-87: the started message; the target list is only printed
RunStart ==
    /\ pc = "start"
    /\ events' = Append(events, Ev("progress_started", 0, 0))
    /\ pc' = "block_check"
    /\ UNCHANGED <<cfgVars, loopVars, waitVars, is_running, wfs_exit, reads,
                   late_reads, late_measures, mcall, otherVars>>

\* lines 89-90: the head of `for i, block in enumerate(self.sequence)`
BlockCheck ==
    /\ pc = "block_check"
    /\ pc' = IF i > Len(sequence) \/ ~is_running THEN "epilogue"
             ELSE "block_body"
    /\ UNCHANGED <<cfgVars, loopVars, waitVars, is_running, events, wfs_exit,
                   reads, late_reads, late_measures, mcall, otherVars>>

\* lines 92-97: block_changed, the expansion, and the skip of an empty one
BlockBody ==
    /\ pc = "block_body"
    /\ LET pts == GenerateTemps(sequence[i])
       IN IF pts = <<>>
          THEN /\ events' = events \o <<Ev("block_changed", i, 0),
                                        Ev("progress_skipping", i, 0)>>
               /\ i' = i + 1
               /\ pc' = "block_check"
               /\ UNCHANGED <<temp_points_in_block, k>>
          ELSE /\ events' = Append(events, Ev("block_changed", i, 0))
               /\ temp_points_in_block' = pts
               /\ k' = 1
               /\ pc' = "point_check"
               /\ UNCHANGED i
    /\ UNCHANGED <<cfgVars, enabled_channels, c, resistances, temp, waitVars,
                   is_running, wfs_exit, reads, late_reads, late_measures, mcall, otherVars>>

\* lines 99-100: the head of `for temp_point in temp_points_in_block`
PointCheck ==
    /\ pc = "point_check"
    /\ pc' = IF k > Len(temp_points_in_block) \/ ~is_running
             THEN "block_tail" ELSE "point_set"
    /\ UNCHANGED <<cfgVars, loopVars, waitVars, is_running, events, wfs_exit,
                   reads, late_reads, late_measures, mcall, otherVars>>

\* lines 102-109: the set-temperature event, both set_temperature calls and
\* the entry into wait_for_stable (line 238)
PointSet ==
    /\ pc = "point_set"
    /\ LET temp_point == temp_points_in_block[k]
       IN IF has_kelvinion
          THEN /\ events' = events \o
                     <<Ev("update_set_temp", i, temp_point),
                       Ev("progress_setting", i, temp_point),
                       Ev("setpoint_A", i, temp_point),
                       Ev("setpoint_B", i, ChamberTarget(temp_point)),
                       Ev("progress_waiting", i, temp_point)>>
               /\ target' = temp_point
               /\ tol' = Tolerance(temp_point)
               /\ wfs_exit' = ""
               /\ pc' = "wfs_acq_check"
          ELSE /\ events' = events \o
                     <<Ev("update_set_temp", i, temp_point),
                       Ev("progress_setting", i, temp_point)>>
               /\ pc' = "post_wait_check"
               /\ UNCHANGED <<target, tol, wfs_exit>>
    /\ UNCHANGED <<cfgVars, loopVars, valid_count, elapsed, is_running, reads,
                   late_reads, late_measures, mcall, otherVars>>

\* mutant: the run goes on to measure without looking at the flag
AfterWaitContinues_unchecked(running) == TRUE

\* line 111, `if not self._is_running: break` after wait_for_stable returned
AfterWaitContinues(running) == running

\* lines 111-116
PostWaitCheck ==
    /\ pc = "post_wait_check"
    /\ IF ~AfterWaitContinues(is_running)
       THEN /\ pc' = "block_tail"
            /\ UNCHANGED <<events, resistances, enabled_channels, c>>
       ELSE /\ events' = Append(events,
                            Ev("progress_measuring", i, temp_points_in_block[k]))
            /\ resistances' = <<>>
            /\ enabled_channels' = EnabledChannels(channels)
            /\ c' = 1
            /\ pc' = "chan_check"
    /\ UNCHANGED <<cfgVars, i, temp_points_in_block, k, temp, waitVars,
                   is_running, wfs_exit, reads, late_reads, late_measures, mcall, otherVars>>

\* lines 117-118: the head of `for ch_name, ch_config in enabled_channels`
ChanCheck ==
    /\ pc = "chan_check"
    /\ pc' = IF ChannelLoopContinues(c, Len(enabled_channels), is_running)
             THEN "chan_measure" ELSE "post_chan_check"
    /\ UNCHANGED <<cfgVars, loopVars, waitVars, is_running, events, wfs_exit,
                   reads, late_reads, late_measures, mcall, otherVars>>

\* lines 120-122: one measure_single_channel call and its result
ChanMeasure ==
    /\ pc = "chan_measure"
    /\ \E o \in MeasureOutcomes(has_k6221, has_matrix) :
         LET r == MeasureSingleChannel(has_k6221, has_matrix, o)
         IN /\ mcall' = r
            /\ resistances' = Append(resistances,
                                     [ch |-> enabled_channels[c],
                                      nan |-> r.nan])
    /\ late_measures' = IF is_running \/ late_measures >= MaxLate
                        THEN late_measures
                        ELSE late_measures + 1
    /\ events' = events \o <<Ev("progress_channel", i, c),
                             Ev("measure", i, c)>>
    /\ c' = c + 1
    /\ pc' = "chan_check"
    /\ UNCHANGED <<cfgVars, i, temp_points_in_block, k, enabled_channels,
                   temp, waitVars, is_running, wfs_exit, reads, late_reads,
                   otherVars>>

\* mutant: the temperature is read but the sample is not emitted
SampleEvents_none(kelvinion, blk, temp_point) ==
    IF kelvinion THEN <<Ev("read_temperatures", blk, 0)>> ELSE <<>>

\* lines 126-128: get_sample_temperature, which reads the controller if
\* there is one, then new_data.emit
SampleEvents(kelvinion, blk, temp_point) ==
    (IF kelvinion THEN <<Ev("read_temperatures", blk, 0)>> ELSE <<>>)
    \o <<Ev("new_data", blk, temp_point)>>

\* lines 124-128: the sample of the point.  The reading of line 126 is the
\* point's temperature, an unparsable answer, or a failed query.
PostChanCheck ==
    /\ pc = "post_chan_check"
    /\ IF ~is_running
       THEN /\ pc' = "block_tail"
            /\ UNCHANGED <<events, k, temp>>
       ELSE /\ \E raises \in BOOLEAN, t_f \in {Num(temp_points_in_block[k]), NaN} :
                 temp' = GetSampleTemperature(has_kelvinion, raises, t_f, t_f)
            /\ events' = events \o
                 SampleEvents(has_kelvinion, i, temp_points_in_block[k])
            /\ k' = k + 1
            /\ pc' = "point_check"
    /\ mcall' = NoCall
    /\ UNCHANGED <<cfgVars, i, temp_points_in_block, enabled_channels, c,
                   resistances, waitVars, is_running, wfs_exit, reads,
                   late_reads, late_measures, otherVars>>

\* lines 130-134: after the points of a block
BlockTail ==
    /\ pc = "block_tail"
    /\ IF ~is_running
       THEN pc' = "epilogue" /\ UNCHANGED <<events, i>>
       ELSE IF EndFlag(sequence[i])
       THEN /\ events' = Append(events, Ev("progress_end_reached", i, 0))
            /\ pc' = "epilogue"
            /\ UNCHANGED i
       ELSE /\ i' = i + 1
            /\ pc' = "block_check"
            /\ UNCHANGED events
    /\ UNCHANGED <<cfgVars, temp_points_in_block, k, enabled_channels, c,
                   resistances, temp, waitVars, is_running, wfs_exit, reads,
                   late_reads, late_measures, mcall, otherVars>>

\* line 136: the flag is read once more, after the loops
EpilogueTest ==
    /\ pc = "epilogue"
    /\ pc' = IF is_running THEN "epilogue_finished" ELSE "epilogue_stopped"
    /\ UNCHANGED <<cfgVars, loopVars, waitVars, is_running, events, wfs_exit,
                   reads, late_reads, late_measures, mcall, otherVars>>

\* mutant: finished is emitted before the closing message
ClosingEvents_finishedFirst(stage) ==
    <<Ev("finished", 0, 0),
      IF stage = "epilogue_finished" THEN Ev("progress_finished", 0, 0)
                                     ELSE Ev("progress_stopped", 0, 0)>>

\* lines 137-141: the message of the branch taken at line 136, then
\* finished.emit()
ClosingEvents(stage) ==
    <<IF stage = "epilogue_finished" THEN Ev("progress_finished", 0, 0)
                                     ELSE Ev("progress_stopped", 0, 0),
      Ev("finished", 0, 0)>>

\* lines 137-141: the closing message and the finished signal
Epilogue ==
    /\ pc \in {"epilogue_finished", "epilogue_stopped"}
    /\ events' = events \o ClosingEvents(pc)
    /\ pc' = "done"
    /\ UNCHANGED <<cfgVars, loopVars, waitVars, is_running, wfs_exit, reads,
                   late_reads, late_measures, mcall, otherVars>>

\* lines 106-107 when the transport (or a table lookup) raises inside
\* set_temperature: nothing in set_temperature or run catches it, so run
\* is left by the exception.  Loop A's call fails, or loop B's after it.
SetTemperatureRaises ==
    /\ pc = "point_set"
    /\ has_kelvinion
    /\ LET temp_point == temp_points_in_block[k]
       IN \E a_done \in BOOLEAN :
            events' = events \o
                <<Ev("update_set_temp", i, temp_point),
                  Ev("progress_setting", i, temp_point)>>
                \o (IF a_done THEN <<Ev("setpoint_A", i, temp_point)>>
                    ELSE <<>>)
    /\ pc' = "raised"
    /\ UNCHANGED <<cfgVars, loopVars, waitVars, is_running, wfs_exit, reads,
                   late_reads, late_measures, mcall, otherVars>>

\* measure_core.py lines 181/191 called from lines 246/260: the query of
\* read_temperatures raises; wait_for_stable and run let it through
ReadTemperaturesRaises ==
    /\ pc \in {"wfs_acq_read", "wfs_conf_read"}
    /\ pc' = "raised"
    /\ UNCHANGED <<cfgVars, loopVars, waitVars, is_running, events, wfs_exit,
                   reads, late_reads, late_measures, mcall, otherVars>>

----------------------------------------------------------------------------
(* Idle values: what a specification gives the variables it does not use *)

NoBlock == [start |-> Bad, stop |-> Bad, step |-> Bad, end |-> FALSE]

GenIdle ==
    /\ block = NoBlock
    /\ temp_points = <<>>
    /\ gen_done = FALSE

RunIdle ==
    /\ sequence = <<>>
    /\ has_kelvinion = FALSE
    /\ has_k6221 = FALSE
    /\ has_matrix = FALSE
    /\ channels = [n \in {} |-> FALSE]
    /\ is_running = FALSE
    /\ pc = "idle"
    /\ i = 0
    /\ temp_points_in_block = <<>>
    /\ k = 0
    /\ enabled_channels = <<>>
    /\ c = 0
    /\ resistances = <<>>
    /\ target = 0
    /\ tol = 0
    /\ valid_count = 0
    /\ elapsed = 0
    /\ events = <<>>
    /\ standalone = FALSE
    /\ stopped_at = -1
    /\ wfs_exit = ""
    /\ reads = <<>>
    /\ late_reads = 0
    /\ late_measures = 0
    /\ temp = NaN
    /\ mcall = NoCall

TableIdle ==
    /\ pidramp = [id |-> 0, file |-> 1]
    /\ call = <<>>
    /\ trace = <<>>
    /\ loads_left = 0

LockIdle ==
    /\ lock = "none"
    /\ prog = <<>>
    /\ in_call = <<>>
    /\ ops_left = 0
    /\ TableIdle

CsvIdle ==
    /\ csv_channels = <<>>
    /\ sample = <<>>
    /\ row_data = <<>>
    /\ header = <<>>

ReadIdle ==
    /\ raw_f = <<>>
    /\ raw_d = <<>>
    /\ rt_f = NaN
    /\ rt_d = NaN
    /\ rt_pc = "idle"

FnIdle == GenIdle /\ CsvIdle /\ ReadIdle

MxIdle ==
    /\ closed = {}
    /\ mx_pc = <<>>
    /\ mx_ch = <<>>
    /\ mx_pin = <<>>
    /\ mx_left = 0

AppIdle ==
    /\ app_is_running = FALSE
    /\ is_manual_locked = FALSE
    /\ measurement_worker = 0
    /\ workers = <<>>
    /\ finished_queue = <<>>
    /\ dialog = "closed"
    /\ starts_left = 0

----------------------------------------------------------------------------
(* SpecGen: _generate_temps_for_block applied to one block *)

GenBases == {0, 300000}

NumBlocks ==
    {[start |-> Num(b + o1), stop |-> Num(b + o2), step |-> Num(st),
      end |-> FALSE] :
        b \in GenBases, o1 \in 0..MaxOffset, o2 \in 0..MaxOffset,
        st \in (-MaxStep)..MaxStep}

\* blocks with a field float() rejects, or without the key
BadBlocks ==
    LET some == {[start |-> s, stop |-> p, step |-> st, end |-> FALSE] :
                    s \in {Bad, Num(300000)}, p \in {Bad, Num(300001)},
                    st \in {Bad, Num(0), Num(1)}}
    IN {b \in some : HasBadField(b)}

GenBlocks == NumBlocks \cup BadBlocks

InitGen ==
    /\ block \in GenBlocks
    /\ temp_points = <<>>
    /\ gen_done = FALSE
    /\ CsvIdle /\ ReadIdle
    /\ RunIdle /\ LockIdle /\ MxIdle /\ AppIdle

Generate ==
    /\ ~gen_done
    /\ temp_points' = GenerateTemps(block)
    /\ gen_done' = TRUE
    /\ UNCHANGED <<block, csvVars, readVars, runVars, appVars, lockVars,
                   mxVars>>

NextGen == Generate

SpecGen == InitGen /\ [][NextGen]_vars

----------------------------------------------------------------------------
(* SpecWait: wait_for_stable(target, is_running_checker) called directly *)

WaitTargets == {300000, 60000}

InitWait ==
    /\ sequence = <<>>
    /\ has_kelvinion = TRUE
    /\ has_k6221 = TRUE
    /\ has_matrix = TRUE
    /\ channels = [n \in {} |-> FALSE]
    /\ is_running = TRUE
    /\ pc = "wfs_acq_check"
    /\ i = 0
    /\ temp_points_in_block = <<>>
    /\ k = 0
    /\ enabled_channels = <<>>
    /\ c = 0
    /\ resistances = <<>>
    /\ target \in WaitTargets
    /\ tol = Tolerance(target)
    /\ valid_count = 0
    /\ elapsed = 0
    /\ events = <<>>
    /\ standalone = TRUE
    /\ stopped_at = -1
    /\ wfs_exit = ""
    /\ reads = <<>>
    /\ late_reads = 0
    /\ late_measures = 0
    /\ temp = NaN
    /\ mcall = NoCall
    /\ FnIdle /\ LockIdle /\ MxIdle /\ AppIdle

NextWait ==
    \/ WfsAcqCheck
    \/ WfsAcqSettle
    \/ WfsAcqRead
    \/ WfsAcqSleep
    \/ WfsConfCheck
    \/ WfsConfSettle
    \/ WfsConfRead
    \/ WfsConfSleep
    \/ Stop

SpecWait == InitWait /\ [][NextWait]_vars

----------------------------------------------------------------------------
(* SpecRun: one MeasurementWorker.run, stop() arriving at any moment *)

BlockA == [start |-> Num(300000), stop |-> Num(298000), step |-> Num(1000),
           end |-> FALSE]
BlockB == [start |-> Num(297000), stop |-> Num(297000), step |-> Num(0),
           end |-> TRUE]
BlockBadEnd == [start |-> Bad, stop |-> Num(297000), step |-> Num(1000),
                end |-> TRUE]
BlockBad == [start |-> Num(300000), stop |-> Num(298000), step |-> Bad,
             end |-> FALSE]

RunBlocks == {BlockA, BlockB, BlockBadEnd, BlockBad}

RunSequences == UNION {[1..n -> RunBlocks] : n \in 1..MaxBlocks}

ChannelConfigs ==
    {[n \in {"CH1", "CH2"} |-> n \in en] : en \in {{"CH1"}, {"CH1", "CH2"}}}

InitRun ==
    /\ sequence \in RunSequences
    /\ \E opened \in [1..3 -> BOOLEAN] :
         LET msys == InitializeInstruments(opened)
         IN /\ has_kelvinion = msys.kelvinion
            /\ has_k6221 = msys.k6221
            /\ has_matrix = msys.matrix
    /\ channels \in ChannelConfigs
    /\ is_running = TRUE
    /\ pc = "start"
    /\ i = 1
    /\ temp_points_in_block = <<>>
    /\ k = 0
    /\ enabled_channels = <<>>
    /\ c = 0
    /\ resistances = <<>>
    /\ target = 0
    /\ tol = 0
    /\ valid_count = 0
    /\ elapsed = 0
    /\ events = <<>>
    /\ standalone = FALSE
    /\ stopped_at = -1
    /\ wfs_exit = ""
    /\ reads = <<>>
    /\ late_reads = 0
    /\ late_measures = 0
    /\ temp = NaN
    /\ mcall = NoCall
    /\ FnIdle /\ LockIdle /\ MxIdle /\ AppIdle

NextRun ==
    \/ RunStart
    \/ BlockCheck
    \/ BlockBody
    \/ PointCheck
    \/ PointSet
    \/ WfsAcqCheck
    \/ WfsAcqSettle
    \/ WfsAcqRead
    \/ WfsAcqSleep
    \/ WfsConfCheck
    \/ WfsConfSettle
    \/ WfsConfRead
    \/ WfsConfSleep
    \/ PostWaitCheck
    \/ ChanCheck
    \/ ChanMeasure
    \/ PostChanCheck
    \/ BlockTail
    \/ EpilogueTest
    \/ Epilogue
    \/ Stop

SpecRun == InitRun /\ [][NextRun]_vars

\* the steps of the worker thread; the thread is scheduled, stop() is the
\* user's
WorkerStep ==
    \/ RunStart \/ BlockCheck \/ BlockBody \/ PointCheck \/ PointSet
    \/ WfsAcqCheck \/ WfsAcqSettle \/ WfsAcqRead \/ WfsAcqSleep
    \/ WfsConfCheck \/ WfsConfSettle \/ WfsConfRead \/ WfsConfSleep
    \/ PostWaitCheck \/ ChanCheck \/ ChanMeasure \/ PostChanCheck
    \/ BlockTail \/ EpilogueTest \/ Epilogue

\* runs of a single block, for the liveness of cancellation
InitRunLive == InitRun /\ Len(sequence) = 1

SpecRunLive == InitRunLive /\ [][NextRun]_vars /\ WF_vars(WorkerStep)

\* SpecFault: the same run with transport calls that may raise
NextFault ==
    \/ NextRun
    \/ SetTemperatureRaises
    \/ ReadTemperaturesRaises

SpecFault == InitRun /\ [][NextFault]_vars

----------------------------------------------------------------------------
(* Claims about _generate_temps_for_block (SpecGen) *)

Count(s, x) == Cardinality({n \in 1..Len(s) : s[n] = x})

\* C7 (as claimed): for numeric fields and step != 0 the result is
\* non-empty, starts with start, ends with stop, and holds stop exactly once.
C7_StopLastExactlyOnce ==
    (gen_done /\ ~HasBadField(block) /\ block.step.v # 0) =>
        /\ Len(temp_points) >= 1
        /\ temp_points[1] = block.start.v
        /\ Last(temp_points) = block.stop.v
        /\ Count(temp_points, block.stop.v) = 1

\* C8: for numeric fields and step == 0 the result is exactly [start],
\* whatever stop is.
C8_ZeroStepSinglePoint ==
    (gen_done /\ ~HasBadField(block) /\ block.step.v = 0) =>
        temp_points = <<block.start.v>>

C8_Witness ==
    /\ gen_done
    /\ ~HasBadField(block)
    /\ block.step.v = 0
    /\ block.stop.v # block.start.v
    /\ temp_points = <<block.start.v>>

----------------------------------------------------------------------------
(* Claims about wait_for_stable (SpecWait) *)

\* the scripted readings [in,in,in,in,in,out,in,in,in,in,in,in]
Script == <<TRUE, TRUE, TRUE, TRUE, TRUE, FALSE,
            TRUE, TRUE, TRUE, TRUE, TRUE, TRUE>>

Min(a, b) == IF a < b THEN a ELSE b

FollowsScript(rs) == \A n \in 1..Min(Len(rs), Len(Script)) : rs[n] = Script[n]

\* C3: the stabilized exit is taken only when the 6 most recent readings
\* were all in tolerance; an out-of-tolerance confirmation reading leaves the
\* counter at 0; with the scripted readings the exit comes no earlier than
\* after the 12th reading.
C3_StabilizedNeedsSixInARow ==
    /\ wfs_exit = "stabilized" =>
         /\ Len(reads) >= StableCount
         /\ \A n \in (Len(reads) - StableCount + 1)..Len(reads) : reads[n]
         /\ FollowsScript(reads) => Len(reads) >= Len(Script)
    /\ (pc = "wfs_conf_sleep" /\ ~Last(reads)) => valid_count = 0

C3_Witness ==
    /\ wfs_exit = "stabilized"
    /\ reads = Script

\* C4 (as claimed): no read_temperatures call is issued once cancellation
\* has been requested.
C4_NoReadAfterCancel == late_reads = 0

----------------------------------------------------------------------------
(* Claims about MeasurementWorker.run (SpecRun) *)

\* index of the first block whose end flag is set; past the end if none
RECURSIVE FirstEndFrom(_, _)
FirstEndFrom(seq, n) ==
    IF n > Len(seq) THEN n
    ELSE IF seq[n].end THEN n
    ELSE FirstEndFrom(seq, n + 1)

FirstEnd(seq) == FirstEndFrom(seq, 1)

BlockActivity == {"block_changed", "update_set_temp", "setpoint_A",
                  "setpoint_B", "measure", "new_data"}

\* C5 (as claimed): nothing happens for a block placed after the first
\* end:true block: no block-start event, no setpoint write, no measurement.
C5_NothingAfterEndBlock ==
    \A n \in 1..Len(events) :
        events[n].e \in {"block_changed", "setpoint_A", "setpoint_B", "measure"}
            => events[n].blk <= FirstEnd(sequence)

\* the loop-A setpoints programmed so far, in order
SetpointsA ==
    LET idx == SelectSeq([n \in 1..Len(events) |-> n],
                         LAMBDA n : events[n].e = "setpoint_A")
    IN [n \in 1..Len(idx) |-> events[idx[n]].v]

AllValid(seq) == \A n \in 1..Len(seq) : ~HasBadField(seq[n])

\* the expansions of the blocks up to and including the first end:true block
ExpectedSetpoints(seq) ==
    Concat([n \in 1..Min(FirstEnd(seq), Len(seq)) |-> GenerateTemps(seq[n])])

Uncancelled == pc = "done" /\ is_running

\* C6 (as claimed): an uncancelled run over valid blocks programs exactly
\* the expansions of the blocks up to the first end:true block.
C6_SetpointsAsClaimed ==
    (Uncancelled /\ AllValid(sequence)) =>
        SetpointsA = ExpectedSetpoints(sequence)

\* C6 (amended): the same, for a run that has the temperature controller;
\* the run then ends with the finished event.
C6_SetpointsWithController ==
    (Uncancelled /\ AllValid(sequence) /\ has_kelvinion) =>
        /\ SetpointsA = ExpectedSetpoints(sequence)
        /\ Last(events).e = "finished"

C6_Witness ==
    /\ Uncancelled
    /\ has_kelvinion
    /\ sequence = <<BlockA, BlockB>>
    /\ SetpointsA = <<300000, 299000, 298000, 297000>>

\* C9: a block with a missing or non-numeric field expands to the empty
\* list; when the run reaches it, block-start is followed at once by the
\* Skipping message, nothing is set or measured for it, and what follows
\* is the start of the next block (or the end of the run: the last block,
\* or a stop request).
C9_InvalidBlockSkipped ==
    /\ \A n \in 1..Len(sequence) :
         HasBadField(sequence[n]) => GenerateTemps(sequence[n]) = <<>>
    /\ \A p \in 1..Len(events) :
         LET ev == events[p]
         IN (ev.e \in BlockActivity /\ HasBadField(sequence[ev.blk])) =>
              /\ ev.e = "block_changed"
              /\ p < Len(events)
              /\ events[p + 1] = Ev("progress_skipping", ev.blk, 0)
              /\ p + 2 <= Len(events) =>
                   \/ events[p + 2] = Ev("block_changed", ev.blk + 1, 0)
                   \/ events[p + 2].e = "progress_stopped"
                   \/ /\ events[p + 2].e = "progress_finished"
                      /\ ev.blk = Len(sequence)
    /\ (pc = "block_body" /\ i > 1 /\ HasBadField(sequence[i - 1])) =>
         Last(events) = Ev("progress_skipping", i - 1, 0)

C9_Witness ==
    \E p \in 1..Len(events) :
        /\ events[p].e = "progress_skipping"
        /\ p < Len(events)
        /\ events[p + 1] = Ev("block_changed", events[p].blk + 1, 0)

----------------------------------------------------------------------------
(* Further claims about MeasurementWorker.run (SpecRun, SpecFault,         *)
(* SpecRunLive)                                                            *)

\* C12 (as claimed): no failure of a hardware operation leaves run by an
\* exception, so that every started run gets to emit finished.
C12_RunNeverLeftByException == pc # "raised"

\* position of the latest set-temperature event at or before position n
LastSet(n) ==
    LET S == {m \in 1..n : events[m].e = "update_set_temp"}
    IN IF S = {} THEN 0 ELSE CHOOSE m \in S : \A q \in S : q <= m

MeasuresBetween(a, b) ==
    Cardinality({m \in a..b : events[m].e = "measure"})

EnabledSet == {n \in DOMAIN channels : channels[n]}

\* C13: with the controller present, each point's set-temperature event is
\* followed by loop A programmed to the point, loop B programmed to
\* point*0.968 and the wait on the point; a channel is measured only after
\* both setpoints of its point and a completed wait on that point, and the
\* sample comes after the point's measurements.
C13_PointOrder ==
    has_kelvinion =>
      /\ \A n \in 1..Len(events) :
           LET ev == events[n]
           IN /\ ev.e = "update_set_temp" =>
                   /\ n + 4 <= Len(events)
                   /\ events[n + 1] = Ev("progress_setting", ev.blk, ev.v)
                   /\ events[n + 2] = Ev("setpoint_A", ev.blk, ev.v)
                   /\ events[n + 3] =
                        Ev("setpoint_B", ev.blk, (ev.v * 968) \div 1000)
                   /\ events[n + 4] = Ev("progress_waiting", ev.blk, ev.v)
              /\ ev.e \in {"measure", "new_data"} =>
                   /\ LastSet(n) > 0
                   /\ LastSet(n) + 4 < n
                   /\ \A m \in LastSet(n)..(n - 1) : events[m].e # "new_data"
      /\ pc \in {"chan_check", "chan_measure", "post_chan_check"} =>
           /\ wfs_exit = "stabilized"
           /\ target = temp_points_in_block[k]

C13_Witness ==
    /\ has_kelvinion
    /\ Len(events) > 0
    /\ Last(events) = Ev("new_data", 1, 300000)
    /\ \E n \in 1..Len(events) : events[n] = Ev("setpoint_B", 1, 290400)
    /\ MeasuresBetween(1, Len(events)) = 2

\* C14: a sample is emitted at most once per point and only after every
\* enabled channel was measured for that point; its resistance map has
\* exactly the enabled channels as keys; a point cut short by a stop
\* request emits no sample (every sample has all its measurements).
C14_SampleComplete ==
    /\ \A n \in 1..Len(events) :
         events[n].e = "new_data" =>
           /\ MeasuresBetween(LastSet(n), n) = Cardinality(EnabledSet)
           /\ \A m \in 1..(n - 1) :
                events[m].e = "new_data" => m < LastSet(n)
    /\ (Len(events) > 0 /\ Last(events).e = "new_data") =>
         /\ Len(resistances) = Cardinality(EnabledSet)
         /\ {resistances[j].ch : j \in 1..Len(resistances)} = EnabledSet

C14_Witness ==
    /\ Len(events) > 0
    /\ Last(events).e = "new_data"
    /\ EnabledSet = {"CH1"}
    /\ Len(resistances) = 1
    /\ resistances[1].ch = "CH1"

\* C15: after stop() the worker starts at most one more
\* measure_single_channel call.
C15_AtMostOneLateMeasure == late_measures <= 1

C15_Witness ==
    /\ late_measures = 1
    /\ pc = "done"
    /\ Cardinality(EnabledSet) = 2

\* the run has ended and its last two events are msg and finished
EndedWith(msg) ==
    /\ pc = "done"
    /\ Len(events) >= 2
    /\ events[Len(events) - 1].e = msg
    /\ Last(events).e = "finished"

\* C16 (as claimed): once stop() was called on a worker that has not
\* ended, the worker eventually emits the stopped-by-user message followed
\* by finished.
C16_StopLeadsToStoppedMessage ==
    (~is_running /\ pc # "done") ~> EndedWith("progress_stopped")

\* C16 (amended): once stop() was called, the worker eventually emits
\* finished; the message before it is the stopped-by-user one when stop()
\* came before the final test of the flag (line 136), also when the
\* temperature never enters the tolerance band.
C16_StopLeadsToFinished ==
    /\ (~is_running /\ pc \notin {"epilogue_finished", "done"})
          ~> EndedWith("progress_stopped")
    /\ ~is_running ~> (pc = "done" /\ Last(events).e = "finished")

C16_Witness ==
    /\ EndedWith("progress_stopped")
    /\ ~is_running
    /\ wfs_exit = "aborted"
    /\ \A n \in 1..Len(events) : events[n].e # "measure"

\* C17 (as claimed): a channel measurement that raises sends the abort to
\* the source-meter, emits the error event and returns NaN, which the run
\* records for the channel; the run goes on, and the sample of the point
\* has every enabled channel.
C17_FailureAbortsAndContinues ==
    /\ mcall.error =>
         /\ \E j \in 1..Len(mcall.cmds) : mcall.cmds[j] = "SOURCE:SWEEP:ABORT"
         /\ mcall.nan
    /\ (pc = "chan_check" /\ c > 1) =>
         resistances[c - 1] = [ch |-> enabled_channels[c - 1],
                               nan |-> mcall.nan]
    /\ (Len(events) > 0 /\ Last(events).e = "new_data") =>
         {resistances[j].ch : j \in 1..Len(resistances)} = EnabledSet

\* C17 (amended): the same, the abort being sent when the source-meter is
\* present; in degraded mode there is none to send it to.
C17_FailureReportedAndContinues ==
    /\ mcall.error =>
         /\ has_kelvinion =>
              /\ \E j \in 1..Len(mcall.cmds) :
                   mcall.cmds[j] = "SOURCE:SWEEP:ABORT"
              /\ Last(mcall.cmds) = "open_all"
         /\ mcall.nan
    /\ mcall.outcome \in {"bad_current", "connect_raises", "delta_raises"}
         => mcall.error
    /\ (pc = "chan_check" /\ c > 1) =>
         resistances[c - 1] = [ch |-> enabled_channels[c - 1],
                               nan |-> mcall.nan]
    /\ (Len(events) > 0 /\ Last(events).e = "new_data") =>
         /\ {resistances[j].ch : j \in 1..Len(resistances)} = EnabledSet
         /\ MeasuresBetween(LastSet(Len(events)), Len(events))
              = Cardinality(EnabledSet)

\* the first channel's delta measurement has raised and the run is about to
\* measure the second channel
C17_Witness ==
    /\ has_kelvinion
    /\ is_running
    /\ pc = "chan_measure"
    /\ c = 2
    /\ mcall.outcome = "delta_raises"
    /\ resistances = <<[ch |-> "CH1", nan |-> TRUE]>>

InstrumentEvents == {"setpoint_A", "setpoint_B", "read_temperatures"}

NumSamples == Cardinality({n \in 1..Len(events) : events[n].e = "new_data"})

\* C19: in degraded mode get_temperatures returns (NaN, NaN); a run issues
\* no instrument command and reports NaN for every channel it measures; an
\* uncancelled run over valid blocks emits one sample per point and ends
\* with finished.
C19_DegradedRun ==
    ~has_kelvinion =>
      /\ \A raises \in BOOLEAN, t \in {Num(300000), NaN} :
           GetTemperatures(has_kelvinion, raises, t, t) = <<NaN, NaN>>
      /\ \A n \in 1..Len(events) : events[n].e \notin InstrumentEvents
      /\ mcall.cmds = <<>>
      /\ wfs_exit = ""
      /\ \A j \in 1..Len(resistances) : resistances[j].nan
      /\ temp = NaN
      /\ (Uncancelled /\ AllValid(sequence)) =>
           /\ NumSamples = Len(ExpectedSetpoints(sequence))
           /\ Last(events).e = "finished"

C19_Witness ==
    /\ ~has_kelvinion
    /\ Uncancelled
    /\ sequence = <<BlockA, BlockB>>
    /\ NumSamples = 4
    /\ resistances = <<[ch |-> "CH1", nan |-> TRUE]>>

----------------------------------------------------------------------------
(* SpecApp: AppController on the GUI thread and the workers it has started. *)
(* A worker is followed from the start of its thread to the handling of     *)
(* its finished signal; what its run loop does in between is SpecRun.       *)

appRunVars == <<sequence, instrVars, is_running, pc, loopVars, waitVars,
                events, standalone, stopped_at, wfs_exit, reads, late_reads,
                late_measures, mcall>>

NoWorker == 0

\* the workers whose run loop is executing
Running == {w \in 1..Len(workers) : workers[w].stage = "running"}

InitApp ==
    /\ app_is_running = FALSE
    /\ is_manual_locked = FALSE
    /\ measurement_worker = NoWorker
    /\ workers = <<>>
    /\ finished_queue = <<>>
    /\ dialog = "closed"
    /\ starts_left = MaxStarts
    /\ sequence = <<>>
    /\ has_kelvinion = FALSE
    /\ has_k6221 = FALSE
    /\ has_matrix = FALSE
    /\ channels \in ChannelConfigs
    /\ is_running = FALSE
    /\ pc = "idle"
    /\ i = 0
    /\ temp_points_in_block = <<>>
    /\ k = 0
    /\ enabled_channels = <<>>
    /\ c = 0
    /\ resistances = <<>>
    /\ target = 0
    /\ tol = 0
    /\ valid_count = 0
    /\ elapsed = 0
    /\ events = <<>>
    /\ standalone = FALSE
    /\ stopped_at = -1
    /\ wfs_exit = ""
    /\ reads = <<>>
    /\ late_reads = 0
    /\ late_measures = 0
    /\ temp = NaN
    /\ mcall = NoCall
    /\ FnIdle /\ LockIdle /\ MxIdle

\* controller.py lines 204-242.  inputs_ok: the sequence is not empty and
\* the save path is a .txt file path.  measurement_thread is set here and
\* cleared in on_measurement_finished together with measurement_worker.
StartMeasurement(inputs_ok) ==
    IF ~inputs_ok
    THEN UNCHANGED <<app_is_running, measurement_worker, workers>>
    ELSE /\ app_is_running' = TRUE
         /\ workers' = Append(workers, [is_running |-> TRUE,
                                        stage |-> "running"])
         /\ measurement_worker' = Len(workers) + 1

\* controller.py lines 244-262
StopMeasurement ==
    /\ workers' = IF measurement_worker # NoWorker
                  THEN [workers EXCEPT ![measurement_worker].is_running = FALSE]
                  ELSE workers
    /\ app_is_running' = FALSE
    /\ UNCHANGED measurement_worker

\* controller.py lines 196-202: the Run/Stop button.  The button is enabled
\* at all times (gui.py line 466); a modal dialog keeps it out of reach.
ToggleMeasurement ==
    /\ dialog = "closed"
    /\ IF app_is_running
       THEN StopMeasurement /\ UNCHANGED starts_left
       ELSE /\ starts_left > 0
            /\ \E inputs_ok \in BOOLEAN : StartMeasurement(inputs_ok)
            /\ starts_left' = starts_left - 1
    /\ UNCHANGED <<is_manual_locked, finished_queue, dialog, channels,
                   appRunVars, fnVars, lockVars, mxVars>>

\* controller.py line 141: a worker's run ends and emits finished, which is
\* queued for the GUI thread
WorkerEmitsFinished(w) ==
    /\ workers[w].stage = "running"
    /\ workers' = [workers EXCEPT ![w].stage = "emitted"]
    /\ finished_queue' = Append(finished_queue, w)
    /\ UNCHANGED <<app_is_running, is_manual_locked, measurement_worker,
                   dialog, starts_left, channels, appRunVars, fnVars,
                   lockVars, mxVars>>

\* controller.py lines 264-275, run for each finished signal, whichever
\* worker sent it
OnMeasurementFinished ==
    /\ finished_queue # <<>>
    /\ finished_queue' = Tail(finished_queue)
    /\ workers' = [workers EXCEPT ![Head(finished_queue)].stage = "handled"]
    /\ app_is_running' = FALSE
    /\ measurement_worker' = NoWorker
    /\ UNCHANGED <<is_manual_locked, dialog, starts_left, channels,
                   appRunVars, fnVars, lockVars, mxVars>>

\* controller.py lines 277-282
ToggleLock ==
    /\ dialog = "closed"
    /\ ~app_is_running
    /\ is_manual_locked' = ~is_manual_locked
    /\ UNCHANGED <<app_is_running, measurement_worker, workers,
                   finished_queue, dialog, starts_left, channels, appRunVars,
                   fnVars, lockVars, mxVars>>

\* controller.py lines 362-371: the dialog is opened with the lock state of
\* that moment (channel_config_dialog.py lines 90-98)
OpenChannelConfig ==
    /\ dialog = "closed"
    /\ dialog' = IF app_is_running \/ is_manual_locked THEN "open_locked"
                 ELSE "open_unlocked"
    /\ UNCHANGED <<app_is_running, is_manual_locked, measurement_worker,
                   workers, finished_queue, starts_left, channels, appRunVars,
                   fnVars, lockVars, mxVars>>

\* channel_config_dialog.py lines 190-210 with controller.py lines 373-376
\* and measure_core.py lines 429-438: Apply & Exit, enabled in an unlocked
\* dialog, writes the new configuration into msys.channels
ApplyAndExit ==
    /\ dialog = "open_unlocked"
    /\ channels' \in ChannelConfigs
    /\ dialog' = "closed"
    /\ UNCHANGED <<app_is_running, is_manual_locked, measurement_worker,
                   workers, finished_queue, starts_left, appRunVars, fnVars,
                   lockVars, mxVars>>

\* channel_config_dialog.py lines 211-216: the dialog is closed
CloseDialog ==
    /\ dialog # "closed"
    /\ dialog' = "closed"
    /\ UNCHANGED <<app_is_running, is_manual_locked, measurement_worker,
                   workers, finished_queue, starts_left, channels, appRunVars,
                   fnVars, lockVars, mxVars>>

NextApp ==
    \/ ToggleMeasurement
    \/ \E w \in 1..Len(workers) : WorkerEmitsFinished(w)
    \/ OnMeasurementFinished
    \/ ToggleLock
    \/ OpenChannelConfig
    \/ ApplyAndExit
    \/ CloseDialog

SpecApp == InitApp /\ [][NextApp]_vars

\* C11 (as claimed): at most one worker's run loop is executing at any
\* time.
C11_AtMostOneWorkerRunning == Cardinality(Running) <= 1

\* C20 (as claimed): msys.channels is never changed while a worker's run
\* loop is executing.
C20_ChannelsFixedDuringRun ==
    [][channels' # channels => Running = {}]_vars

----------------------------------------------------------------------------
(* KelvinionController: the transport commands of each method, and the     *)
(* lock acquisitions around them.  A method is the list of its steps:      *)
(* "acquire" / "release" of self._lock (the `with` blocks) and "write" /   *)
(* "query" calls on self.inst.                                             *)

Acquire == [op |-> "acquire", cmd |-> "", arg |-> 0]
Release == [op |-> "release", cmd |-> "", arg |-> 0]
Write(cmd, arg) == [op |-> "write", cmd |-> cmd, arg |-> arg]
Query(cmd) == [op |-> "query", cmd |-> cmd, arg |-> 0]

\* ramp_override=None
None == [num |-> FALSE, v |-> 0]

\* _safe_write
SafeWrite(cmd, arg) == <<Acquire, Write(cmd, arg), Release>>

\* mutant: no default, and the table goes before the override
RampFor_tableFirst(table, t, ramp_override) ==
    LET n == FirstMatch(table, t)
    IN IF n # 0 THEN table[n].ramp
       ELSE IF ramp_override.num THEN ramp_override.v ELSE 0

\* the ramp written by set_sample_ramp / set_chamber_ramp: the override, or
\* the first matching table entry, or 1
RampFor(table, t, ramp_override) ==
    IF ramp_override.num THEN ramp_override.v
    ELSE LET n == FirstMatch(table, t)
         IN IF n = 0 THEN 1 ELSE table[n].ramp

SetSampleRamp(t, ramp_override) ==
    SafeWrite("SET:RAMP:A", RampFor(Pidramp.sample_ramp, t, ramp_override))

SetChamberRamp(t, ramp_override) ==
    SafeWrite("SET:RAMP:B", RampFor(Pidramp.chamber_ramp, t, ramp_override))

\* set_sample_pid / set_chamber_pid: three writes inside one `with`
PidWrites(table, t, loop) ==
    LET n == FirstMatch(table, t)
    IN IF n = 0 THEN <<>>
       ELSE <<Acquire,
              Write("SET:PID:" \o loop \o ":KP", table[n].P),
              Write("SET:PID:" \o loop \o ":KI", table[n].I),
              Write("SET:PID:" \o loop \o ":KD", 0),
              Release>>

SetSamplePid(t) == PidWrites(Pidramp.sample_pid, t, "A")

SetChamberPid(t) == PidWrites(Pidramp.chamber_pid, t, "B")

\* set_sample_range / set_chamber_range: self.inst.write, no `with`
RangeWrite(table, t, loop) ==
    LET n == FirstMatch(table, t)
    IN IF n = 0 THEN <<>> ELSE <<Write("SET:RANGE:" \o loop, n)>>

SetSampleRange(t) == RangeWrite(Pidramp.sample_range, t, "A")

SetChamberRange(t) == RangeWrite(Pidramp.chamber_range, t, "B")

\* the setpoint write of set_temperature: self.inst.write, no `with`
SetpointWrite(t, loop) == <<Write("SET:SETP:" \o loop, t)>>

SetTemperature(t, loop, ramp_override) ==
    IF loop = "A"
    THEN SetpointWrite(t, "A") \o SetSampleRamp(t, ramp_override)
         \o SetSamplePid(t) \o SetSampleRange(t)
    ELSE SetpointWrite(t, "B") \o SetChamberRamp(t, ramp_override)
         \o SetChamberPid(t) \o SetChamberRange(t)

ReadTemperatures == <<Acquire, Query("READ:K:F"), Query("READ:K:D"), Release>>

GetSetTemperature(channel) == <<Acquire, Query("READ:SETP:" \o channel), Release>>

----------------------------------------------------------------------------
(* SpecLock: the GUI thread and the run worker on one KelvinionController *)

\* "main": the Qt thread (1 Hz poller, manual setpoint, PID/ramp apply);
\* "worker": the QThread of MeasurementWorker.run
Threads == {"main", "worker"}

NoThread == "none"

LockTargets == {300000, 60000, 320000}

\* what MeasurementWorker.run calls (lines 106-109, 126)
WorkerOps ==
    {SetTemperature(t, "A", None) : t \in LockTargets}
    \cup {SetTemperature(ChamberTarget(t), "B", None) : t \in LockTargets}
    \cup {ReadTemperatures}

\* what runs on the Qt thread: _update_hardware_temperatures,
\* set_manual_temperature, apply_pidramp_to_hardware, set_ramp_for_loop
MainOps ==
    {ReadTemperatures, GetSetTemperature("A"), GetSetTemperature("B")}
    \cup {SetTemperature(t, "A", Num(4)) : t \in LockTargets}
    \cup {SetTemperature(ChamberTarget(t), "B", None) : t \in LockTargets}
    \cup {SetSampleRamp(t, None) \o SetSamplePid(t) : t \in LockTargets}
    \cup {SetChamberRamp(t, None) \o SetChamberPid(t) : t \in LockTargets}

OpsOf(t) == IF t = "worker" THEN WorkerOps ELSE MainOps

InitLock ==
    /\ lock = NoThread
    /\ prog = [t \in Threads |-> <<>>]
    /\ in_call = [t \in Threads |-> ""]
    /\ ops_left = MaxOps
    /\ TableIdle
    /\ FnIdle /\ RunIdle /\ MxIdle /\ AppIdle

\* a thread enters one of the controller's methods
StartOp(t) ==
    /\ prog[t] = <<>>
    /\ ops_left > 0
    /\ \E o \in OpsOf(t) : prog' = [prog EXCEPT ![t] = o]
    /\ ops_left' = ops_left - 1
    /\ UNCHANGED <<tableVars, lock, in_call, fnVars, runVars, appVars,
                   mxVars>>

\* `with self._lock:` entered; threading.Lock blocks while it is held
LockAcquire(t) ==
    /\ prog[t] # <<>>
    /\ in_call[t] = ""
    /\ Head(prog[t]).op = "acquire"
    /\ lock = NoThread
    /\ lock' = t
    /\ prog' = [prog EXCEPT ![t] = Tail(@)]
    /\ UNCHANGED <<tableVars, in_call, ops_left, fnVars, runVars, appVars,
                   mxVars>>

\* `with self._lock:` left
LockRelease(t) ==
    /\ prog[t] # <<>>
    /\ in_call[t] = ""
    /\ Head(prog[t]).op = "release"
    /\ lock' = NoThread
    /\ prog' = [prog EXCEPT ![t] = Tail(@)]
    /\ UNCHANGED <<tableVars, in_call, ops_left, fnVars, runVars, appVars,
                   mxVars>>

\* self.inst.write / self.inst.query entered: the command goes to the wire
EnterCall(t) ==
    /\ prog[t] # <<>>
    /\ in_call[t] = ""
    /\ Head(prog[t]).op \in {"write", "query"}
    /\ in_call' = [in_call EXCEPT ![t] = Head(prog[t]).cmd]
    /\ prog' = [prog EXCEPT ![t] = Tail(@)]
    /\ UNCHANGED <<tableVars, lock, ops_left, fnVars, runVars, appVars,
                   mxVars>>

\* self.inst.write / self.inst.query returned
LeaveCall(t) ==
    /\ in_call[t] # ""
    /\ in_call' = [in_call EXCEPT ![t] = ""]
    /\ UNCHANGED <<tableVars, lock, prog, ops_left, fnVars, runVars,
                   appVars, mxVars>>

NextLock ==
    \E t \in Threads :
        \/ StartOp(t)
        \/ LockAcquire(t)
        \/ LockRelease(t)
        \/ EnterCall(t)
        \/ LeaveCall(t)

SpecLock == InitLock /\ [][NextLock]_vars

\* thread t is inside read_temperatures, its [READ:K:F] query has returned
\* and its [READ:K:D] query has not been sent yet
MidRead(t) ==
    /\ in_call[t] = ""
    /\ prog[t] # <<>>
    /\ Head(prog[t]) = Query("READ:K:D")

\* C1 (as claimed): while a thread is between the two queries of
\* read_temperatures, no other thread is inside a transport call.
C1_ReadPairUninterrupted ==
    \A t \in Threads, u \in Threads :
        (t # u /\ MidRead(t)) => in_call[u] = ""

\* C2 (as claimed): a thread inside a transport call holds the lock, so no
\* two threads are inside a transport call together.
C2_TransportUnderLock ==
    /\ \A t \in Threads : in_call[t] # "" => lock = t
    /\ \A t \in Threads, u \in Threads :
         (t # u /\ in_call[t] # "") => in_call[u] = ""

----------------------------------------------------------------------------
(* SpecMatrix: threads calling MeasurementSystem.measure_single_channel   *)

\* "worker": MeasurementWorker.run (line 121); the others: the threads
\* ChannelConfigDialog._start_measure_thread starts, one per checked channel
MxThreads == {"worker", "adhoc1", "adhoc2"}

\* channel_config['pins'] of each channel; CH3 has none configured
ChannelPins ==
    [CH1 |-> <<1, 2>>, CH2 |-> <<3, 4>>, CH3 |-> <<>>]

MxChannels == {"CH1", "CH2", "CH3"}

\* the relay path connect closes for position row of pins:
\* channel.close("4{row}{col:02d}")
PathOf(row, col) == <<row, col>>

PathsOf(ch) ==
    {PathOf(row, ChannelPins[ch][row]) : row \in 1..Len(ChannelPins[ch])}

InitMatrix ==
    /\ closed = {}
    /\ mx_pc = [t \in MxThreads |-> "idle"]
    /\ mx_ch = [t \in MxThreads |-> "CH1"]
    /\ mx_pin = [t \in MxThreads |-> 0]
    /\ mx_left = MaxMeasures
    /\ FnIdle /\ RunIdle /\ LockIdle /\ AppIdle

\* mutant: the early return leaves the method at once
NoPinsExit_direct == "idle"

\* lines 522-524: `return float('nan')` inside the try block, so the
\* finally block of line 556 runs before the method is left
NoPinsExit == "finally"

\* lines 517-524: entry; float(channel_config['current']) may raise; without
\* pins the method returns NaN at once (through the finally block)
MxBegin(t) ==
    /\ mx_pc[t] = "idle"
    /\ mx_left > 0
    /\ mx_left' = mx_left - 1
    /\ \E ch \in MxChannels, bad_current \in BOOLEAN :
         /\ mx_ch' = [mx_ch EXCEPT ![t] = ch]
         /\ mx_pc' = [mx_pc EXCEPT ![t] =
                        IF bad_current THEN "except"
                        ELSE IF ChannelPins[ch] = <<>> THEN NoPinsExit
                        ELSE "connect"]
    /\ UNCHANGED <<closed, mx_pin, fnVars, runVars, appVars, lockVars>>

\* SwitchMatrix3706.connect, line 348: open_all first; a write that raises
\* leaves the relays as they are and goes to the except block
MxConnectOpenAll(t) ==
    /\ mx_pc[t] = "connect"
    /\ \E raised \in BOOLEAN :
         IF raised
         THEN /\ mx_pc' = [mx_pc EXCEPT ![t] = "except"]
              /\ UNCHANGED <<closed, mx_pin>>
         ELSE /\ closed' = {}
              /\ mx_pin' = [mx_pin EXCEPT ![t] = 1]
              /\ mx_pc' = [mx_pc EXCEPT ![t] = "close"]
    /\ UNCHANGED <<mx_ch, mx_left, fnVars, runVars, appVars, lockVars>>

\* SwitchMatrix3706.connect, lines 349-350: one channel.close per pin
MxClosePin(t) ==
    /\ mx_pc[t] = "close"
    /\ LET pins == ChannelPins[mx_ch[t]]
       IN IF mx_pin[t] > Len(pins)
          THEN /\ mx_pc' = [mx_pc EXCEPT ![t] = "measure"]
               /\ UNCHANGED <<closed, mx_pin>>
          ELSE \E raised \in BOOLEAN :
                 IF raised
                 THEN /\ mx_pc' = [mx_pc EXCEPT ![t] = "except"]
                      /\ UNCHANGED <<closed, mx_pin>>
                 ELSE /\ closed' = closed \cup
                                     {PathOf(mx_pin[t], pins[mx_pin[t]])}
                      /\ mx_pin' = [mx_pin EXCEPT ![t] = @ + 1]
                      /\ UNCHANGED mx_pc
    /\ UNCHANGED <<mx_ch, mx_left, fnVars, runVars, appVars, lockVars>>

\* lines 531-541: delta_measure returns, or raises into the except block
MxDeltaMeasure(t) ==
    /\ mx_pc[t] = "measure"
    /\ \E raised \in BOOLEAN :
         mx_pc' = [mx_pc EXCEPT ![t] = IF raised THEN "except" ELSE "finally"]
    /\ UNCHANGED <<closed, mx_ch, mx_pin, mx_left, fnVars, runVars, appVars, lockVars>>

\* lines 543-554: the error event and the abort sent to the 6221
MxExcept(t) ==
    /\ mx_pc[t] = "except"
    /\ mx_pc' = [mx_pc EXCEPT ![t] = "finally"]
    /\ UNCHANGED <<closed, mx_ch, mx_pin, mx_left, fnVars, runVars, appVars, lockVars>>

\* lines 556-562: the finally block's open_all, then the return
MxFinally(t) ==
    /\ mx_pc[t] = "finally"
    /\ closed' = {}
    /\ mx_pc' = [mx_pc EXCEPT ![t] = "idle"]
    /\ UNCHANGED <<mx_ch, mx_pin, mx_left, fnVars, runVars, appVars, lockVars>>

NextMatrix ==
    \E t \in MxThreads :
        \/ MxBegin(t)
        \/ MxConnectOpenAll(t)
        \/ MxClosePin(t)
        \/ MxDeltaMeasure(t)
        \/ MxExcept(t)
        \/ MxFinally(t)

SpecMatrix == InitMatrix /\ [][NextMatrix]_vars

\* C10 (as claimed): the closed relay paths always belong to at most one
\* channel.
C10_OneChannelRouted ==
    \E ch \in MxChannels : closed \subseteq PathsOf(ch)

AllIdle == \A t \in MxThreads : mx_pc[t] = "idle"

----------------------------------------------------------------------------
(* SpecManual: the Run/Stop button, the manual setpoint and the workers'   *)
(* per-point set_temperature calls, step by step on the transport.         *)

\* the thread of the n-th worker started (controller.py lines 232-242)
WorkerThread(w) == "w" \o ToString(w)

ManualThreads == {"main"} \cup {WorkerThread(w) : w \in 1..MaxStarts}

ManualTargets == {300000}

\* the GUI thread is in its event loop, not inside a handler
MainIdle == prog["main"] = <<>> /\ in_call["main"] = ""

InitManual ==
    /\ app_is_running = FALSE
    /\ is_manual_locked = FALSE
    /\ measurement_worker = NoWorker
    /\ workers = <<>>
    /\ finished_queue = <<>>
    /\ dialog = "closed"
    /\ starts_left = MaxStarts
    /\ lock = NoThread
    /\ prog = [t \in ManualThreads |-> <<>>]
    /\ in_call = [t \in ManualThreads |-> ""]
    /\ ops_left = MaxOps
    /\ TableIdle
    /\ FnIdle /\ RunIdle /\ MxIdle

\* controller.py lines 104-108: a worker whose flag is set at the head of the
\* point loop programs loop A, then loop B
WorkerSetsPoint(w) ==
    /\ workers[w].stage = "running"
    /\ workers[w].is_running
    /\ prog[WorkerThread(w)] = <<>>
    /\ in_call[WorkerThread(w)] = ""
    /\ ops_left > 0
    /\ \E temp_point \in ManualTargets :
         prog' = [prog EXCEPT ![WorkerThread(w)] =
                    SetTemperature(temp_point, "A", None)
                    \o SetTemperature(ChamberTarget(temp_point), "B", None)]
    /\ ops_left' = ops_left - 1
    /\ UNCHANGED <<tableVars, lock, in_call, fnVars, runVars, mxVars,
                   appVars>>

\* gui.py lines 623-652 with controller.py lines 429-457: the manual
\* setpoint, refused while controller.is_running, runs both
\* set_temperature calls on the GUI thread
SetManualTemperature ==
    /\ MainIdle
    /\ ~app_is_running
    /\ ops_left > 0
    /\ \E temp_point \in ManualTargets, ramp \in {None, Num(4)} :
         prog' = [prog EXCEPT !["main"] =
                    SetTemperature(temp_point, "A", ramp)
                    \o SetTemperature(ChamberTarget(temp_point), "B", None)]
    /\ ops_left' = ops_left - 1
    /\ UNCHANGED <<tableVars, lock, in_call, fnVars, runVars, mxVars,
                   appVars>>

\* a worker leaves run between two of its calls
WorkerLeavesRun(w) ==
    /\ prog[WorkerThread(w)] = <<>>
    /\ in_call[WorkerThread(w)] = ""
    /\ WorkerEmitsFinished(w)

NextManual ==
    \/ MainIdle /\ ToggleMeasurement
    \/ MainIdle /\ OnMeasurementFinished
    \/ SetManualTemperature
    \/ \E w \in 1..Len(workers) : WorkerSetsPoint(w)
    \/ \E w \in 1..Len(workers) : WorkerLeavesRun(w)
    \/ \E t \in ManualThreads :
         \/ LockAcquire(t)
         \/ LockRelease(t)
         \/ EnterCall(t)
         \/ LeaveCall(t)

SpecManual == InitManual /\ [][NextManual]_vars

\* the commands set_temperature(target, loop) sends
LoopCmds(loop) ==
    {"SET:SETP:" \o loop, "SET:RAMP:" \o loop, "SET:PID:" \o loop \o ":KP",
     "SET:PID:" \o loop \o ":KI", "SET:PID:" \o loop \o ":KD",
     "SET:RANGE:" \o loop}

\* the commands of the steps s, in order
RECURSIVE CmdsOf(_)
CmdsOf(s) ==
    IF s = <<>> THEN <<>>
    ELSE IF Head(s).op \in {"write", "query"}
         THEN <<Head(s).cmd>> \o CmdsOf(Tail(s))
         ELSE CmdsOf(Tail(s))

\* thread t is executing set_temperature for the loop: it is inside one of
\* the call's commands, or between two of them
InSetTemperature(t, loop) ==
    \/ in_call[t] \in LoopCmds(loop)
    \/ /\ in_call[t] = ""
       /\ CmdsOf(prog[t]) # <<>>
       /\ Head(CmdsOf(prog[t])) \in LoopCmds(loop) \ {"SET:SETP:" \o loop}

\* C21 (as claimed): the GUI thread's manual set and a worker's per-point
\* set never execute set_temperature for the same loop at the same time.
C21_SetTemperatureExclusive ==
    \A w \in 1..Len(workers), loop \in {"A", "B"} :
        ~(InSetTemperature("main", loop)
          /\ InSetTemperature(WorkerThread(w), loop))

----------------------------------------------------------------------------
(* SpecCtl: KelvinionController methods on two threads, with the table     *)
(* read from self.pidramp at the moment each helper scans it, and          *)
(* load_pidramp replacing the table object on the GUI thread.              *)

\* a second PID/ramp file the user can load: other ranges, other payloads
PidrampLoaded ==
    [sample_ramp      |-> << [min |-> 0, max |-> 400000, ramp |-> 9] >>,
     chamber_ramp     |-> << [min |-> 0, max |-> 50000, ramp |-> 8],
                             [min |-> 0, max |-> 400000, ramp |-> 7] >>,
     sample_pid       |-> << [min |-> 0, max |-> 200000, P |-> 60, I |-> 6],
                             [min |-> 0, max |-> 400000, P |-> 70, I |-> 8] >>,
     chamber_pid      |-> << [min |-> 0, max |-> 400000, P |-> 90, I |-> 9] >>,
     sample_range     |-> << [min |-> 0, max |-> 400000, range |-> "LOW"] >>,
     chamber_range    |-> << [min |-> 0, max |-> 400000, range |-> "LOW"] >>,
     tolerance_ranges |-> << [min |-> 0, max |-> 400000, tolerance |-> 500],
                             [min |-> 0, max |-> 400000, tolerance |-> 50] >>]

\* the files load_pidramp is given; PidrampFiles[1] is loaded at startup
PidrampFiles == <<Pidramp, PidrampLoaded>>

\* load_pidramp calls in one behaviour
MaxLoads == 1

\* controller methods called in one behaviour
MaxCalls == 2

\* a helper of the controller that scans self.pidramp when it is reached
Call(method, target_temp, ramp_override) ==
    [op |-> "call", cmd |-> method,
     arg |-> [target |-> target_temp, ramp_override |-> ramp_override]]

\* interruptible_sleep in wait_for_stable
Sleep(name) == [op |-> "sleep", cmd |-> name, arg |-> 0]

\* mutant: the helpers of set_temperature in another order
SetTemperatureCalls_pidFirst(target_temp, loop, ramp_override) ==
    IF loop = "A"
    THEN <<Call("set_sample_pid", target_temp, None)>>
         \o SetpointWrite(target_temp, "A")
         \o <<Call("set_sample_ramp", target_temp, ramp_override),
              Call("set_sample_range", target_temp, None)>>
    ELSE <<Call("set_chamber_pid", target_temp, None)>>
         \o SetpointWrite(target_temp, "B")
         \o <<Call("set_chamber_ramp", target_temp, ramp_override),
              Call("set_chamber_range", target_temp, None)>>

\* set_temperature: the setpoint write, then the three helpers of the loop
SetTemperatureCalls(target_temp, loop, ramp_override) ==
    IF loop = "A"
    THEN SetpointWrite(target_temp, "A")
         \o <<Call("set_sample_ramp", target_temp, ramp_override),
              Call("set_sample_pid", target_temp, None),
              Call("set_sample_range", target_temp, None)>>
    ELSE SetpointWrite(target_temp, "B")
         \o <<Call("set_chamber_ramp", target_temp, ramp_override),
              Call("set_chamber_pid", target_temp, None),
              Call("set_chamber_range", target_temp, None)>>

\* mutant: the lock is kept over the sleep that follows the read
WaitPoll_locked ==
    <<Sleep("settle"), Acquire, Query("READ:K:F"), Query("READ:K:D"),
      Sleep("poll"), Release>>

\* one iteration of a loop of wait_for_stable: interruptible_sleep(0.8),
\* read_temperatures, interruptible_sleep(1, ...)
WaitPoll == <<Sleep("settle")>> \o ReadTemperatures \o <<Sleep("poll")>>

\* the head of a `while` loop of wait_for_stable
WhileLoop == [op |-> "while", cmd |-> "", arg |-> 0]

\* wait_for_stable: the tolerance, then the loops
WaitForStableCalls(target_temp) ==
    <<Call("_tolerance", target_temp, None), WhileLoop>>

\* the table a helper scans, "" when it scans none (ramp_override given)
TableScanned(step) ==
    CASE step.cmd \in {"set_sample_ramp", "set_chamber_ramp"}
           /\ step.arg.ramp_override.num -> ""
      [] step.cmd = "set_sample_ramp" -> "sample_ramp"
      [] step.cmd = "set_chamber_ramp" -> "chamber_ramp"
      [] step.cmd = "set_sample_pid" -> "sample_pid"
      [] step.cmd = "set_chamber_pid" -> "chamber_pid"
      [] step.cmd = "set_sample_range" -> "sample_range"
      [] step.cmd = "set_chamber_range" -> "chamber_range"
      [] step.cmd = "_tolerance" -> "tolerance_ranges"

\* _tolerance on a given table
ToleranceOf(table, target_temp) ==
    LET n == FirstMatch(table, target_temp)
    IN IF n = 0 THEN DefaultTolerance ELSE table[n].tolerance

\* the steps of a helper once it has read the table object pr
Body(step, pr) ==
    LET tt == step.arg.target
        ro == step.arg.ramp_override
    IN CASE step.cmd = "set_sample_ramp" ->
              SafeWrite("SET:RAMP:A", RampFor(pr.sample_ramp, tt, ro))
         [] step.cmd = "set_chamber_ramp" ->
              SafeWrite("SET:RAMP:B", RampFor(pr.chamber_ramp, tt, ro))
         [] step.cmd = "set_sample_pid" -> PidWrites(pr.sample_pid, tt, "A")
         [] step.cmd = "set_chamber_pid" -> PidWrites(pr.chamber_pid, tt, "B")
         [] step.cmd = "set_sample_range" ->
              RangeWrite(pr.sample_range, tt, "A")
         [] step.cmd = "set_chamber_range" ->
              RangeWrite(pr.chamber_range, tt, "B")
         [] step.cmd = "_tolerance" -> <<>>

\* the arguments of the write steps of s, in order
RECURSIVE ArgsOf(_)
ArgsOf(s) ==
    IF s = <<>> THEN <<>>
    ELSE IF Head(s).op = "write" THEN <<Head(s).arg>> \o ArgsOf(Tail(s))
         ELSE ArgsOf(Tail(s))

\* what a helper took from the table: the values it goes on to write, or
\* the tolerance it returns
Yield(step, pr) ==
    IF step.cmd = "_tolerance"
    THEN <<ToleranceOf(pr.tolerance_ranges, step.arg.target)>>
    ELSE ArgsOf(Body(step, pr))

\* the obj of a trace entry that is not a lookup
NoTable == [id |-> 0, file |-> 1]

NoMethod == [method |-> "", target |-> 0, loop |-> "", ramp_override |-> None]

Method(method, target_temp, loop, ramp_override) ==
    [method |-> method, target |-> target_temp, loop |-> loop,
     ramp_override |-> ramp_override]

CtlTargets == {300000, 60000, 320000}

\* the calls of MeasurementWorker.run (lines 106-109)
CtlWorkerCalls ==
    {Method("set_temperature", tt, "A", None) : tt \in CtlTargets}
    \cup {Method("set_temperature", ChamberTarget(tt), "B", None) :
            tt \in CtlTargets}
    \cup {Method("wait_for_stable", tt, "A", None) : tt \in CtlTargets}

\* the calls of the GUI thread: the 1 Hz poller and the loop A call of
\* set_manual_temperature with a ramp given
CtlMainCalls ==
    {Method("read_temperatures", 0, "", None)}
    \cup {Method("set_temperature", 300000, "A", Num(4))}

CtlCallsOf(t) == IF t = "worker" THEN CtlWorkerCalls ELSE CtlMainCalls

InitCtl ==
    /\ lock = NoThread
    /\ prog = [t \in Threads |-> <<>>]
    /\ in_call = [t \in Threads |-> ""]
    /\ ops_left = MaxCalls
    /\ pidramp = [id |-> 1, file |-> 1]
    /\ call = [t \in Threads |-> NoMethod]
    /\ trace = [t \in Threads |-> <<>>]
    /\ loads_left = MaxLoads
    /\ FnIdle /\ RunIdle /\ MxIdle /\ AppIdle

\* a thread calls a method of the controller
CtlStart(t) ==
    /\ prog[t] = <<>>
    /\ in_call[t] = ""
    /\ call[t] = NoMethod
    /\ ops_left > 0
    /\ \E m \in CtlCallsOf(t) :
         /\ call' = [call EXCEPT ![t] = m]
         /\ prog' = [prog EXCEPT ![t] =
              CASE m.method = "set_temperature" ->
                     SetTemperatureCalls(m.target, m.loop, m.ramp_override)
                [] m.method = "wait_for_stable" ->
                     WaitForStableCalls(m.target)
                [] m.method = "read_temperatures" -> ReadTemperatures]
    /\ ops_left' = ops_left - 1
    /\ UNCHANGED <<lock, in_call, pidramp, trace, loads_left, fnVars,
                   runVars, appVars, mxVars>>

\* the method returns to its caller
CtlReturn(t) ==
    /\ call[t] # NoMethod
    /\ prog[t] = <<>>
    /\ in_call[t] = ""
    /\ call' = [call EXCEPT ![t] = NoMethod]
    /\ trace' = [trace EXCEPT ![t] = <<>>]
    /\ UNCHANGED <<lock, prog, in_call, ops_left, pidramp, loads_left,
                   fnVars, runVars, appVars, mxVars>>

\* a helper is entered: it evaluates self.pidramp[...] now (or not at all,
\* with a ramp override) and goes on with the steps that table gives it
CtlLookup(t) ==
    /\ prog[t] # <<>>
    /\ in_call[t] = ""
    /\ Head(prog[t]).op = "call"
    /\ LET step == Head(prog[t])
           pr == PidrampFiles[pidramp.file]
       IN /\ prog' = [prog EXCEPT ![t] = Body(step, pr) \o Tail(@)]
          /\ trace' = [trace EXCEPT ![t] =
                IF TableScanned(step) = "" THEN @
                ELSE Append(@, [kind |-> "lookup",
                                cmd |-> TableScanned(step),
                                out |-> Yield(step, pr),
                                obj |-> pidramp,
                                held |-> lock = t])]
    /\ UNCHANGED <<lock, in_call, ops_left, pidramp, call, loads_left,
                   fnVars, runVars, appVars, mxVars>>

\* self.inst.write / self.inst.query entered
CtlEnter(t) ==
    /\ prog[t] # <<>>
    /\ in_call[t] = ""
    /\ Head(prog[t]).op \in {"write", "query"}
    /\ in_call' = [in_call EXCEPT ![t] = Head(prog[t]).cmd]
    /\ prog' = [prog EXCEPT ![t] = Tail(@)]
    /\ trace' = [trace EXCEPT ![t] =
          IF Head(prog[t]).op = "query" THEN @
          ELSE Append(@, [kind |-> "write",
                          cmd |-> Head(prog[t]).cmd,
                          out |-> <<Head(prog[t]).arg>>,
                          obj |-> NoTable,
                          held |-> lock = t])]
    /\ UNCHANGED <<lock, ops_left, pidramp, call, loads_left, fnVars,
                   runVars, appVars, mxVars>>

\* the head of a loop of wait_for_stable: one more iteration, or the loop
\* is left (cancelled, or the temperature is stable)
CtlWhile(t) ==
    /\ prog[t] # <<>>
    /\ in_call[t] = ""
    /\ Head(prog[t]).op = "while"
    /\ \/ prog' = [prog EXCEPT ![t] = WaitPoll \o @]
       \/ prog' = [prog EXCEPT ![t] = Tail(@)]
    /\ UNCHANGED <<lock, in_call, ops_left, tableVars, fnVars, runVars,
                   appVars, mxVars>>

\* interruptible_sleep entered; LeaveCall is its return
CtlSleep(t) ==
    /\ prog[t] # <<>>
    /\ in_call[t] = ""
    /\ Head(prog[t]).op = "sleep"
    /\ in_call' = [in_call EXCEPT ![t] = Head(prog[t]).cmd]
    /\ prog' = [prog EXCEPT ![t] = Tail(@)]
    /\ UNCHANGED <<lock, ops_left, tableVars, fnVars, runVars, appVars,
                   mxVars>>

\* measure_core.py lines 572-612, from the Load Config button, which is
\* enabled at all times (gui.py lines 108-109): a new table object
LoadPidramp ==
    /\ prog["main"] = <<>>
    /\ in_call["main"] = ""
    /\ loads_left > 0
    /\ \E file \in 1..Len(PidrampFiles) :
         pidramp' = [id |-> pidramp.id + 1, file |-> file]
    /\ loads_left' = loads_left - 1
    /\ UNCHANGED <<lock, prog, in_call, ops_left, call, trace, fnVars,
                   runVars, appVars, mxVars>>

NextCtl ==
    \/ LoadPidramp
    \/ \E t \in Threads :
         \/ CtlStart(t)
         \/ CtlReturn(t)
         \/ CtlLookup(t)
         \/ CtlEnter(t)
         \/ CtlWhile(t)
         \/ CtlSleep(t)
         \/ LockAcquire(t)
         \/ LockRelease(t)
         \/ LeaveCall(t)

SpecCtl == InitCtl /\ [][NextCtl]_vars

\* the entries of kind knd in a trace
RECURSIVE OfKind(_, _)
OfKind(s, knd) ==
    IF s = <<>> THEN <<>>
    ELSE IF Head(s).kind = knd THEN <<Head(s)>> \o OfKind(Tail(s), knd)
         ELSE OfKind(Tail(s), knd)

\* C22 (as claimed): the table lookups of one set_temperature call all
\* read the same table object.
C22_OneTablePerCall ==
    \A t \in Threads :
        call[t].method = "set_temperature" =>
            \A a \in 1..Len(trace[t]), b \in 1..Len(trace[t]) :
                (trace[t][a].kind = "lookup" /\ trace[t][b].kind = "lookup")
                    => trace[t][a].obj.id = trace[t][b].obj.id

\* the writes a thread's current call has sent so far
Sent(t) == OfKind(trace[t], "write")

\* the place of a command in the order setpoint, ramp, KP, KI, KD, range
RankOf(cmd, loop) ==
    CASE cmd = "SET:SETP:" \o loop -> 1
      [] cmd = "SET:RAMP:" \o loop -> 2
      [] cmd = "SET:PID:" \o loop \o ":KP" -> 3
      [] cmd = "SET:PID:" \o loop \o ":KI" -> 4
      [] cmd = "SET:PID:" \o loop \o ":KD" -> 5
      [] cmd = "SET:RANGE:" \o loop -> 6
      [] OTHER -> 0

Returning(t) == call[t] # NoMethod /\ prog[t] = <<>> /\ in_call[t] = ""

\* C23: a set_temperature(target, loop) call sends only commands of its
\* loop, in the order setpoint, ramp, KP, KI, KD, range (setpoint and ramp
\* always, the three gains together or not at all), and from the KP write
\* to the end of the KD write the thread holds the lock without a break.
C23_CommandOrder ==
    \A t \in Threads :
        call[t].method = "set_temperature" =>
            LET w == Sent(t)
                lp == call[t].loop
                ranks == {RankOf(w[n].cmd, lp) : n \in 1..Len(w)}
            IN /\ \A n \in 1..Len(w) : w[n].cmd \in LoopCmds(lp)
               /\ \A a \in 1..Len(w), b \in 1..Len(w) :
                    a < b => RankOf(w[a].cmd, lp) < RankOf(w[b].cmd, lp)
               /\ \A n \in 1..Len(w) :
                    RankOf(w[n].cmd, lp) \in {3, 4, 5} => w[n].held
               /\ (in_call[t] = "" /\ CmdsOf(prog[t]) # <<>>
                   /\ RankOf(Head(CmdsOf(prog[t])), lp) \in {4, 5})
                    => lock = t
               /\ RankOf(in_call[t], lp) \in {3, 4, 5} => lock = t
               /\ 2 \in ranks => 1 \in ranks
               /\ ranks \cap {3, 4, 5, 6} # {} => {1, 2} \subseteq ranks
               /\ Returning(t) =>
                    /\ {1, 2} \subseteq ranks
                    /\ ranks \cap {3, 4, 5} \in {{}, {3, 4, 5}}

\* a set_temperature call has sent all six commands and is returning
C23_Witness ==
    \E t \in Threads :
        /\ call[t].method = "set_temperature"
        /\ Returning(t)
        /\ Len(Sent(t)) = 6

\* the entries of a table that contain the target
Matching(table, target_temp) ==
    {n \in 1..Len(table) :
        table[n].min <= target_temp /\ target_temp <= table[n].max}

\* the least element of a non-empty set of numbers
Least(S) == CHOOSE n \in S : \A m \in S : n <= m

\* what the entry n of the table named nm gives its helper
PayloadOf(nm, table, n) ==
    CASE nm \in {"sample_ramp", "chamber_ramp"} -> <<table[n].ramp>>
      [] nm \in {"sample_pid", "chamber_pid"} -> <<table[n].P, table[n].I, 0>>
      [] nm \in {"sample_range", "chamber_range"} -> <<n>>
      [] nm = "tolerance_ranges" -> <<table[n].tolerance>>

\* C24: every lookup that finds entries containing the target uses the
\* payload of the earliest of them in declaration order.
C24_FirstMatchWins ==
    \A t \in Threads :
        \A n \in 1..Len(trace[t]) :
            LET e == trace[t][n]
                table == PidrampFiles[e.obj.file][e.cmd]
                found == Matching(table, call[t].target)
            IN (e.kind = "lookup" /\ found # {})
                 => e.out = PayloadOf(e.cmd, table, Least(found))

\* a lookup on the sample ramp table of the startup file, whose two entries
\* both contain 60 K, has taken the first entry's ramp
C24_Witness ==
    \E n \in 1..Len(trace["worker"]) :
        /\ call["worker"].target = 60000
        /\ trace["worker"][n].kind = "lookup"
        /\ trace["worker"][n].cmd = "sample_ramp"
        /\ trace["worker"][n].obj.file = 1
        /\ trace["worker"][n].out = <<2>>

RampTables == {"sample_ramp", "chamber_ramp"}

\* C25: a ramp lookup without a matching entry writes ramp 1 and a
\* tolerance lookup without one gives 0.1 K; with a ramp override the
\* override is written and no ramp table is scanned; a range lookup
\* without a matching entry writes nothing and the call goes on.
C25_Defaults ==
    \A t \in Threads :
        /\ \A n \in 1..Len(trace[t]) :
             LET e == trace[t][n]
                 table == PidrampFiles[e.obj.file][e.cmd]
             IN (e.kind = "lookup" /\ Matching(table, call[t].target) = {})
                  => /\ e.cmd \in RampTables => e.out = <<1>>
                     /\ e.cmd = "tolerance_ranges" => e.out = <<100>>
                     /\ e.cmd \in {"sample_range", "chamber_range"}
                          => /\ e.out = <<>>
                             /\ \A m \in 1..Len(trace[t]) :
                                  RankOf(trace[t][m].cmd, call[t].loop) # 6
                             /\ prog[t] = <<>> => Returning(t)
        /\ call[t].ramp_override.num =>
             \A n \in 1..Len(trace[t]) :
                 /\ trace[t][n].cmd \notin RampTables
                 /\ RankOf(trace[t][n].cmd, call[t].loop) = 2
                      => trace[t][n].out = <<call[t].ramp_override.v>>

\* the GUI thread's set with an override has written the override, and the
\* worker's set at 320 K, which no entry of the startup tables contains,
\* has written ramp 1 and no range and is returning
C25_Witness ==
    /\ call["main"].ramp_override.num
    /\ \E n \in 1..Len(trace["main"]) :
         /\ trace["main"][n].cmd = "SET:RAMP:A"
         /\ trace["main"][n].out = <<4>>
    /\ call["worker"].method = "set_temperature"
    /\ call["worker"].target = 320000
    /\ Returning("worker")
    /\ \E n \in 1..Len(trace["worker"]) :
         /\ trace["worker"][n].kind = "lookup"
         /\ trace["worker"][n].cmd = "sample_range"
         /\ trace["worker"][n].obj.file = 1
    /\ \E n \in 1..Len(trace["worker"]) :
         /\ trace["worker"][n].cmd = "SET:RAMP:A"
         /\ trace["worker"][n].out = <<1>>

\* the sleeps of wait_for_stable: 0.8 s before a read, 1 s after it
StabilizationSleeps == {"settle", "poll"}

\* C26: a thread in a stabilization sleep of wait_for_stable does not hold
\* the controller lock, so the lock is free or in the other thread's hands
\* for the whole sleep.
C26_NoLockWhileSleeping ==
    \A t \in Threads : in_call[t] \in StabilizationSleeps => lock # t

\* the poller holds the lock, inside its first query, while the worker is
\* in the 1 s sleep of wait_for_stable
C26_Witness ==
    /\ in_call["worker"] = "poll"
    /\ call["main"].method = "read_temperatures"
    /\ lock = "main"
    /\ in_call["main"] = "READ:K:F"

----------------------------------------------------------------------------
(* SpecRun: samples against setpoints, and the channel loop of a point *)

\* the positions in events of the events named e, in order
IndexOf(e) ==
    SelectSeq([n \in 1..Len(events) |-> n], LAMBDA n : events[n].e = e)

\* no point is waiting for its sample
NoPoint == [some |-> FALSE, blk |-> 0, v |-> 0]

\* the events evs from position n on, read with `point` the last point set
\* that has no sample yet and blk the block of the last sample: every
\* sample is the sample of the point waiting, of a block not before blk,
\* and a point is set only when no point is waiting
RECURSIVE SamplesFollowFrom(_, _, _, _)
SamplesFollowFrom(evs, n, point, blk) ==
    IF n > Len(evs) THEN TRUE
    ELSE IF evs[n].e = "new_data"
         THEN /\ point.some
              /\ point.blk = evs[n].blk
              /\ point.v = evs[n].v
              /\ blk <= evs[n].blk
              /\ SamplesFollowFrom(evs, n + 1, NoPoint, evs[n].blk)
         ELSE /\ ~point.some
              /\ SamplesFollowFrom(evs, n + 1,
                    [some |-> TRUE, blk |-> evs[n].blk, v |-> evs[n].v], blk)

\* the k-th sample is the sample of the k-th event named e, emitted after
\* it and before the next one; at most the last such event has no sample
SamplesFollow(e) ==
    SamplesFollowFrom(SelectSeq(events,
                                LAMBDA ev : ev.e \in {e, "new_data"}),
                      1, NoPoint, 0)

\* C27 (as claimed): the k-th sample belongs to the k-th setpoint
\* programmed and is emitted before the next setpoint is written; the
\* samples are a prefix of the setpoints, whatever the run has.
C27_SamplesFollowSetpoints == SamplesFollow("setpoint_A")

\* C27 (amended): the k-th sample belongs to the k-th point the run has
\* set, is emitted before the next point is set, and blocks never go
\* backwards; with the temperature controller the points set are the
\* setpoints programmed, without it no setpoint is programmed.
C27_SamplesFollowPoints ==
    /\ SamplesFollow("update_set_temp")
    /\ IF has_kelvinion
       THEN SamplesFollow("setpoint_A")
       ELSE \A n \in 1..Len(events) : events[n].e # "setpoint_A"

\* a run with the controller, cancelled after its second setpoint, has
\* emitted the first point's sample only
C27_Witness ==
    /\ has_kelvinion
    /\ pc = "done"
    /\ ~is_running
    /\ Len(IndexOf("setpoint_A")) = 2
    /\ Len(IndexOf("new_data")) = 1

\* C28: within a point the channels measured so far are the first enabled
\* channels of the map in declaration order, one call each and none
\* disabled; a call is started only when the previous call has returned,
\* its open_all sent; a sample carries every enabled channel once.
C28_ChannelsInOrder ==
    LET declared == SelectSeq(ChannelNames, LAMBDA n : channels[n])
    IN /\ pc \in {"chan_check", "chan_measure", "post_chan_check"} =>
            /\ c - 1 <= Len(declared)
            /\ [n \in 1..Len(resistances) |-> resistances[n].ch]
                 = SubSeq(declared, 1, c - 1)
            /\ LET first == LastSet(Len(events))
                   m == SelectSeq(IndexOf("measure"), LAMBDA n : n > first)
               IN [n \in 1..Len(m) |-> events[m[n]].v]
                    = [n \in 1..(c - 1) |-> n]
            /\ c > 1 =>
                 /\ mcall # NoCall
                 /\ has_kelvinion =>
                      /\ mcall.cmds # <<>>
                      /\ Last(mcall.cmds) = "open_all"
       /\ (Len(events) > 0 /\ Last(events).e = "new_data") =>
            [n \in 1..Len(resistances) |-> resistances[n].ch] = declared

\* with both channels enabled and the instruments present, the second
\* call of a point is about to start after the first call returned
C28_Witness ==
    /\ pc = "chan_measure"
    /\ c = 2
    /\ has_kelvinion
    /\ channels["CH1"] /\ channels["CH2"]
    /\ resistances = <<[ch |-> "CH1", nan |-> FALSE]>>
    /\ Last(mcall.cmds) = "open_all"

----------------------------------------------------------------------------
(* SpecCsv: the header of get_csv_header and the row of                    *)
(* _write_data_to_file for one channel map and one sample.                 *)

\* the channel names of the model, as Python's sorted() orders them
SortedNames == <<"CH1", "CH10", "CH2">>

CsvNames == {SortedNames[n] : n \in 1..Len(SortedNames)}

\* the orderings of the non-empty sets of names: the key orders a dict of
\* channels can have
KeyOrders ==
    {ks \in UNION {[1..n -> CsvNames] : n \in 1..Len(SortedNames)} :
        \A a \in 1..Len(ks), b \in 1..Len(ks) : a # b => ks[a] # ks[b]}

\* what a sample holds for a channel: no key, None, NaN or a number
SampleValues == {"missing", "None", "nan", "number"}

\* sorted(self.channels.keys())
Sorted(names) == SelectSeq(SortedNames, LAMBDA n : n \in names)

\* measure_core.py lines 440-446: the channel of each resistance column
GetCsvHeader(chs) == Sorted({chs[n].name : n \in 1..Len(chs)})

\* f"{res_value:.6e}" of a float
FormatE(value) == IF value = "nan" THEN "nan" ELSE "d.dddddde+dd"

\* controller.py lines 315-320: one field per key of msys.channels, in the
\* order of keys(); resistances.get(ch) is None for a missing key
RowData(chs, res) ==
    [n \in 1..Len(chs) |->
        [ch |-> chs[n].name,
         text |-> IF res[chs[n].name] \notin {"missing", "None"}
                     /\ chs[n].enabled
                  THEN FormatE(res[chs[n].name])
                  ELSE "XXXXXXE0"]]

InitCsv ==
    /\ \E ks \in KeyOrders :
         csv_channels \in {[n \in 1..Len(ks) |->
                              [name |-> ks[n], enabled |-> en[n]]] :
                           en \in [1..Len(ks) -> BOOLEAN]}
    /\ sample \in [CsvNames -> SampleValues]
    /\ row_data = <<>>
    /\ header = <<>>
    /\ GenIdle /\ ReadIdle /\ RunIdle /\ LockIdle /\ MxIdle /\ AppIdle

\* controller.py lines 340-347: _write_header_to_file
WriteHeaderToFile ==
    /\ header = <<>>
    /\ header' = GetCsvHeader(csv_channels)
    /\ UNCHANGED <<csv_channels, sample, row_data, genVars, readVars,
                   runVars, lockVars, mxVars, appVars>>

\* controller.py lines 307-326: _write_data_to_file
WriteDataToFile ==
    /\ header # <<>>
    /\ row_data = <<>>
    /\ row_data' = RowData(csv_channels, sample)
    /\ UNCHANGED <<csv_channels, sample, header, genVars, readVars, runVars,
                   lockVars, mxVars, appVars>>

NextCsv == WriteHeaderToFile \/ WriteDataToFile

SpecCsv == InitCsv /\ [][NextCsv]_vars

\* C29 (as claimed): the row has one resistance field per configured
\* channel, the n-th field being the channel of the n-th header column;
\* the field is the sentinel exactly when the channel is disabled or has
\* no value in the sample, and a formatted float otherwise.
C29_RowMatchesHeader ==
    row_data # <<>> =>
        /\ Len(row_data) = Len(header)
        /\ Len(row_data) = Len(csv_channels)
        /\ \A n \in 1..Len(row_data) :
             /\ row_data[n].ch = header[n]
             /\ \E m \in 1..Len(csv_channels) :
                  /\ csv_channels[m].name = row_data[n].ch
                  /\ row_data[n].text = "XXXXXXE0"
                       <=> (\/ ~csv_channels[m].enabled
                            \/ sample[row_data[n].ch] \in {"missing", "None"})

----------------------------------------------------------------------------
(* SpecRead: read_temperatures on one pair of responses.  A response is a  *)
(* sequence of characters; float() accepts the non-empty digit strings.    *)

\* length of a response
MaxRawLen == 5

Digits == {"7"}

Chars == Digits \cup {"K"}

RawResponses == UNION {[1..n -> Chars] : n \in 0..MaxRawLen}

\* raw[1:-3]
Slice(raw) == SubSeq(raw, 2, Len(raw) - 3)

\* whether float(s) returns
IsFloat(s) == s # <<>> /\ \A n \in 1..Len(s) : s[n] \in Digits

\* the number float(s) returns
RECURSIVE FloatOf(_)
FloatOf(s) ==
    IF s = <<>> THEN 0 ELSE 10 * FloatOf(SubSeq(s, 1, Len(s) - 1)) + 7

\* mutant: only float(raw[1:-3]) is tried
ParseTemperature_noFallback(raw) ==
    IF IsFloat(Slice(raw))
    THEN [raised |-> FALSE, val |-> Num(FloatOf(Slice(raw)))]
    ELSE [raised |-> TRUE, val |-> NaN]

\* measure_core.py lines 184-190 and 192-198: float(raw[1:-3]), else
\* float(raw), else NaN
ParseTemperature(raw) ==
    IF IsFloat(Slice(raw))
    THEN [raised |-> FALSE, val |-> Num(FloatOf(Slice(raw)))]
    ELSE IF IsFloat(raw)
         THEN [raised |-> FALSE, val |-> Num(FloatOf(raw))]
         ELSE [raised |-> FALSE, val |-> NaN]

InitRead ==
    /\ raw_f \in RawResponses
    /\ raw_d \in RawResponses
    /\ rt_f = NaN
    /\ rt_d = NaN
    /\ rt_pc = "start"
    /\ GenIdle /\ CsvIdle /\ RunIdle /\ LockIdle /\ MxIdle /\ AppIdle

\* lines 182-190: the [READ:K:F] query and the parsing of its response
ReadF ==
    /\ rt_pc = "start"
    /\ LET r == ParseTemperature(raw_f)
       IN IF r.raised
          THEN rt_pc' = "raised" /\ UNCHANGED rt_f
          ELSE rt_pc' = "f_read" /\ rt_f' = r.val
    /\ UNCHANGED <<raw_f, raw_d, rt_d, genVars, csvVars, runVars, lockVars,
                   mxVars, appVars>>

\* lines 191-198: the [READ:K:D] query and the parsing of its response
ReadD ==
    /\ rt_pc = "f_read"
    /\ LET r == ParseTemperature(raw_d)
       IN IF r.raised
          THEN rt_pc' = "raised" /\ UNCHANGED rt_d
          ELSE rt_pc' = "d_read" /\ rt_d' = r.val
    /\ UNCHANGED <<raw_f, raw_d, rt_f, genVars, csvVars, runVars, lockVars,
                   mxVars, appVars>>

\* line 199: return t_f, t_d
ReadReturn ==
    /\ rt_pc = "d_read"
    /\ rt_pc' = "returned"
    /\ UNCHANGED <<raw_f, raw_d, rt_f, rt_d, genVars, csvVars, runVars,
                   lockVars, mxVars, appVars>>

NextRead == ReadF \/ ReadD \/ ReadReturn

SpecRead == InitRead /\ [][NextRead]_vars

\* neither float(raw[1:-3]) nor float(raw) returns
Unparsable(raw) ==
    /\ ~(Slice(raw) # <<>> /\ \A n \in 1..Len(Slice(raw)) : Slice(raw)[n] = "7")
    /\ ~(raw # <<>> /\ \A n \in 1..Len(raw) : raw[n] = "7")

\* C30: read_temperatures never raises on a response; after the F query
\* the D query is made whatever F's response was; the value returned for
\* a channel is NaN exactly when that channel's own response is
\* unparsable, whatever the other response is.
C30_UnparsableGivesNaN ==
    /\ rt_pc # "raised"
    /\ rt_pc \in {"f_read", "d_read", "returned"} =>
         (Unparsable(raw_f) <=> rt_f = NaN)
    /\ rt_pc \in {"d_read", "returned"} =>
         (Unparsable(raw_d) <=> rt_d = NaN)
    /\ rt_pc = "returned" =>
         /\ ~Unparsable(raw_f) => rt_f.num
         /\ ~Unparsable(raw_d) => rt_d.num

\* F's response was unparsable, D's was a plain number: (NaN, 77) returned
C30_Witness ==
    /\ rt_pc = "returned"
    /\ raw_f = <<"K", "K">>
    /\ raw_d = <<"7", "7">>
    /\ rt_f = NaN
    /\ rt_d = Num(77)

----------------------------------------------------------------------------
(* Further claims about _generate_temps_for_block (SpecGen) *)

\* v lies in the closed interval between a and b, whichever is larger
Between(v, a, b) == (a <= v /\ v <= b) \/ (b <= v /\ v <= a)

----------------------------------------------------------------------------
(* Further claims about MeasurementWorker.run (SpecRun) *)

\* the run is in the measuring part of the current point (lines 113-128)
Measuring == pc \in {"chan_check", "chan_measure", "post_chan_check"}

\* the events of the point set last, after its set-temperature event
EventsOfPoint ==
    {events[n].e : n \in (LastSet(Len(events)) + 1)..Len(events)}

\* C32: with the controller present, the measuring part of a point is
\* entered, and a measurement or a sample of the point is emitted, only
\* after wait_for_stable for that point left through its stabilized exit
\* with valid_count at 6; after a wait left by cancellation the point gets
\* no measurement and no sample.
C32_MeasuredOnlyWhenStabilized ==
    has_kelvinion =>
        /\ Measuring => (wfs_exit = "stabilized" /\ valid_count = StableCount)
        /\ (EventsOfPoint \cap {"progress_measuring", "progress_channel",
                                "measure", "new_data"} # {})
              => wfs_exit = "stabilized"
        /\ wfs_exit = "aborted" => (~is_running /\ ~Measuring)

\* a point measured after its wait stabilized, and a later point whose wait
\* was cancelled
C32_Witness ==
    /\ has_kelvinion
    /\ wfs_exit = "aborted"
    /\ pc = "done"
    /\ \E n \in 1..Len(events) : events[n].e = "new_data"

----------------------------------------------------------------------------
(* Further claims about AppController and its workers (SpecApp) *)

\* C33 (as claimed): a worker whose run loop is executing and on which
\* stop() has not been called is the worker AppController holds, with
\* AppController.is_running true, so that the next press of the button
\* stops it; the finished event of an earlier worker does not clear this.
C33_RunningWorkerIsCurrent ==
    \A w \in Running :
        workers[w].is_running =>
            (app_is_running /\ measurement_worker = w)

----------------------------------------------------------------------------
(* Further claims about wait_for_stable (SpecWait) *)

\* C34: once cancellation is requested, wait_for_stable calls
\* read_temperatures at most once more before it returns, and after such
\* a late reading it returns through one of its cancelled exits.
C34_AtMostOneLateRead ==
    /\ late_reads <= 1
    /\ (late_reads = 1 /\ pc = "wfs_returned") =>
          (wfs_exit = "aborted" /\ ~is_running)

\* a wait cancelled during the settle sleep of the confirmation phase: one
\* more reading (in tolerance) is taken, then the method returns
C34_Witness ==
    /\ pc = "wfs_returned"
    /\ wfs_exit = "aborted"
    /\ late_reads = 1
    /\ valid_count >= 2
    /\ Len(reads) >= 3
    /\ Last(reads)

----------------------------------------------------------------------------
(* SpecLockLive: SpecLock with transport calls that may raise, and threads  *)
(* that are scheduled                                                       *)

\* mutant: an exception leaves the lock with the thread that raised
WithExit_leaked(holder, t) == holder

\* `with self._lock:` left by an exception: __exit__ releases the lock when
\* the thread raising is inside the block
WithExit(holder, t) == IF holder = t THEN NoThread ELSE holder

\* self.inst.write / self.inst.query raises (a VISA timeout): no method of
\* KelvinionController catches it around the call, so the method is left
TransportRaises(t) ==
    /\ in_call[t] # ""
    /\ in_call' = [in_call EXCEPT ![t] = ""]
    /\ prog' = [prog EXCEPT ![t] = <<>>]
    /\ lock' = WithExit(lock, t)
    /\ UNCHANGED <<tableVars, ops_left, fnVars, runVars, appVars, mxVars>>

NextLockLive ==
    \/ NextLock
    \/ \E t \in Threads : TransportRaises(t)

\* a thread inside a method goes on, and transport calls return or raise;
\* a thread blocked on the lock gets it if it is free again and again
SpecLockLive ==
    /\ InitLock
    /\ [][NextLockLive]_vars
    /\ \A t \in Threads :
         /\ WF_vars(LockRelease(t) \/ EnterCall(t) \/ LeaveCall(t)
                    \/ TransportRaises(t))
         /\ SF_vars(LockAcquire(t))

\* thread t is at a `with self._lock:` it has not entered yet
WaitingForLock(t) ==
    /\ prog[t] # <<>>
    /\ in_call[t] = ""
    /\ Head(prog[t]).op = "acquire"

\* thread t is inside a `with self._lock:` block: the block's end is ahead
\* of it, before any other block
InsideWith(t) ==
    \E n \in 1..Len(prog[t]) :
        /\ prog[t][n].op = "release"
        /\ \A m \in 1..(n - 1) : prog[t][m].op # "acquire"

\* C35: a thread never comes to acquire the lock while holding it; the lock
\* is held only by a thread inside a critical section, also after a
\* transport call raised; and a thread waiting for the lock gets it.
C35_LockNeverDeadlocks ==
    /\ [](\A t \in Threads : WaitingForLock(t) => lock # t)
    /\ [](\A t \in Threads : lock = t => InsideWith(t))
    /\ \A t \in Threads : WaitingForLock(t) ~> (lock = t)

\* the GUI thread waits for the lock while the worker is inside the second
\* query of read_temperatures
C35_Witness ==
    /\ WaitingForLock("main")
    /\ lock = "worker"
    /\ in_call["worker"] = "READ:K:D"

----------------------------------------------------------------------------
(* Further claims about the end of MeasurementWorker.run (SpecFault) *)

\* the positions of the finished events
FinishedAt == {n \in 1..Len(events) : events[n].e = "finished"}

\* finished was emitted once, as the last event, right after msg
FinishedOnceAfter(msg) ==
    /\ FinishedAt = {Len(events)}
    /\ Len(events) >= 2
    /\ events[Len(events) - 1].e = msg

----------------------------------------------------------------------------
(* MeasurementWorker._get_all_target_temps against the run (SpecRun) *)

\* controller.py lines 70-78: the expansions of the blocks in order, up to
\* and including the first block with the end flag, valid or not
RECURSIVE GetAllTargetTempsFrom(_, _)
GetAllTargetTempsFrom(seq, n) ==
    IF n > Len(seq) THEN <<>>
    ELSE GenerateTemps(seq[n])
         \o (IF EndFlag(seq[n]) THEN <<>>
             ELSE GetAllTargetTempsFrom(seq, n + 1))

GetAllTargetTemps(seq) == GetAllTargetTempsFrom(seq, 1)

\* C37 (as claimed): the setpoints an uncancelled run with the controller
\* has programmed on loop A are the list _get_all_target_temps computes for
\* its sequence, invalid blocks and end flags included.
C37_TargetListIsProgrammed ==
    (Uncancelled /\ has_kelvinion) =>
        SetpointsA = GetAllTargetTemps(sequence)

----------------------------------------------------------------------------
(* What a worker still does after stop() (SpecRun) *)

\* positions of the events e emitted after stop() was called
AfterStop(e) ==
    {n \in (stopped_at + 1)..Len(events) : events[n].e = e}

\* C38: the flag of a worker, once cleared by stop(), stays cleared; after
\* stop() the worker programs at most one setpoint on loop A and one on
\* loop B, the two of one point, and emits at most one block-start event.
C38_AtMostOnePointAfterStop ==
    /\ [][~is_running => ~is_running']_vars
    /\ [](stopped_at >= 0 =>
            /\ Cardinality(AfterStop("setpoint_A")) <= 1
            /\ Cardinality(AfterStop("setpoint_B")) <= 1
            /\ Cardinality(AfterStop("block_changed")) <= 1
            /\ \A b \in AfterStop("setpoint_B") :
                 /\ b > 1
                 /\ events[b - 1].e = "setpoint_A"
                 /\ events[b].v = ChamberTarget(events[b - 1].v))

\* stop() arrived between the test of line 100 and the setpoint writes: the
\* point is still programmed on both loops, then the run ends
C38_Witness ==
    /\ pc = "done"
    /\ stopped_at >= 0
    /\ Cardinality(AfterStop("setpoint_A")) = 1
    /\ Cardinality(AfterStop("setpoint_B")) = 1
    /\ AfterStop("new_data") = {}

----------------------------------------------------------------------------
(* Instrument handles after initialize_instruments (SpecRun) *)

\* C39: the three handles are all present or all None, so a run that has
\* the temperature controller makes every channel measurement with the
\* switch matrix and the source-meter present: the matrix is connected
\* (unless the channel's configuration is rejected first) and opened again.
C39_InstrumentsAllOrNothing ==
    /\ has_kelvinion = has_k6221
    /\ has_kelvinion = has_matrix
    /\ (has_kelvinion /\ mcall # NoCall) =>
          /\ has_k6221 /\ has_matrix
          /\ Last(mcall.cmds) = "open_all"
          /\ mcall.outcome \notin {"bad_current", "no_pins"}
                => Head(mcall.cmds) = "connect"

\* a run with the controller has measured a channel through the matrix and
\* the source-meter
C39_Witness ==
    /\ has_kelvinion
    /\ mcall.outcome = "ok"
    /\ mcall.cmds = <<"connect", "delta_measure", "open_all">>

----------------------------------------------------------------------------
(* SpecWaitLive: wait_for_stable called directly, its thread scheduled     *)

\* the steps of the thread inside wait_for_stable
WaitStep ==
    \/ WfsAcqCheck \/ WfsAcqSettle \/ WfsAcqRead \/ WfsAcqSleep
    \/ WfsConfCheck \/ WfsConfSettle \/ WfsConfRead \/ WfsConfSleep

SpecWaitLive == InitWait /\ [][NextWait]_vars /\ WF_vars(WaitStep)

\* the n most recent readings exist and were all in tolerance
LastInTolerance(n) ==
    /\ Len(reads) >= n
    /\ \A m \in (Len(reads) - n + 1)..Len(reads) : reads[m]

\* wait_for_stable returned although no cancellation was requested
ReturnedUncancelled == pc = "wfs_returned" /\ is_running

\* C40 (as claimed): a wait that returned without a cancellation request
\* has seen 7 consecutive in-tolerance readings, the last 7.
C40_ReturnsOnlyAfterSevenInARow ==
    ReturnedUncancelled => LastInTolerance(StableCount + 1)

\* C40 (amended): an uncancelled wait whose readings are in tolerance from
\* some reading on returns through its stabilized exit (unless the
\* readings recorded for the wait end before 7 of them were in tolerance
\* in a row); without a cancellation request
\* the method returns only through that exit, which needs an in-tolerance
\* acquisition reading and, later, 6 consecutive in-tolerance confirmation
\* readings as the last ones; with all readings in tolerance these are
\* exactly 7 readings.
C40_TerminatesWhenStable ==
    /\ ([]is_running /\ <>[](reads # <<>> /\ Last(reads)))
          => <>(\/ wfs_exit = "stabilized"
                \/ /\ Len(reads) >= MaxReads
                   /\ ~LastInTolerance(StableCount + 1))
    /\ [](ReturnedUncancelled => wfs_exit = "stabilized")
    /\ [](wfs_exit = "stabilized" =>
            /\ LastInTolerance(StableCount)
            /\ \E n \in 1..(Len(reads) - StableCount) : reads[n]
            /\ LastInTolerance(Len(reads)) => Len(reads) = StableCount + 1)

\* stabilized without 7 in-tolerance readings in a row: the acquisition
\* reading, an out-of-tolerance reading, then 6 in tolerance
C40_Witness ==
    /\ ReturnedUncancelled
    /\ wfs_exit = "stabilized"
    /\ reads = <<TRUE, FALSE, TRUE, TRUE, TRUE, TRUE, TRUE, TRUE>>

====
